---- MODULE Spec2Model ----
(***************************************************************************)
(* A model of the drinkingames session server: the lobby registry, the     *)
(* socket -> player directory, the disconnect grace period and the rounds  *)
(* of the registered games, as implemented by src/socket/handlers.js,      *)
(* src/models/Lobby.js, src/models/Player.js and src/games/*.              *)
(*                                                                         *)
(* Objects are modelled with their identity: a Player is an index into     *)
(* the sequence `player`, a Lobby object an index into the sequence        *)
(* `lobby`.  A Lobby object outlives its registry entry (timer closures    *)
(* keep a reference to it), so the registry `lobbies` maps a code to the   *)
(* index of the live object.                                               *)
(***************************************************************************)
EXTENDS Integers, Sequences, FiniteSets, TLC

\* ------------------------------------------------------------------ bounds
LobbySockets == 3
LobbyPlayers == 3
LobbyLobbies == 2

\* One lobby filled to its capacity.
CapSockets == 9
CapPlayers == 9
CapLobbies == 1
CapMovers == 1

\* More lobbies than there are codes.
CodeSockets == 3
CodePlayers == 3
CodeLobbies == 3
CodeMovers == 1

\* A lobby in a round and a third connection.
AdmSockets == 3
AdmPlayers == 3
AdmLobbies == 1
AdmRounds == 1
AdmMovers == 2

\* Two rounds in one lobby.
RaceRounds == 2

\* Connections without a player at one time.
MaxIdle == 1

\* Votes recorded in the rounds of the drawing game.
MaxVotes == 1

\* The clock: its value at startup, the step it advances by and the number
\* of steps, all in ms.
Epoch == 1000
Quantum == 30000
MaxTicks == 3

\* The whole server.
MaxSockets == 2
MaxPlayers == 2
MaxLobbies == 1
MaxRounds == 1

\* ------------------------------------------------------------- constants
MAX_LOBBY_PLAYERS == 8
MIN_START_PLAYERS == 2
USERNAME_MIN == 4
USERNAME_MAX == 20
CODE_LENGTH == 4
TIME_LIMIT == 60000
GAME_DURATION == 15000

NoPlayer == 0
NoLobby == 0
NoCode == "null"
NoGame == "null"

\* The lobby-code namespace of the model (generateLobbyCode draws four
\* letters of a 24-letter alphabet; the model keeps two codes of it).
Codes == {"ABCD", "WXYZ"}

\* What a client may send as data.lobbyCode.
CodeInputs == {"abcd", "WXYZ", "AB", NoCode}

\* What a client may send as the lobbyCode of player:reconnect.
ReconnectCodes == {"ABCD", "wxyz"}

GameIds == {"dead-draw-poker", "drawing-game", "multiply-madness", "queens"}

VARIABLES
    nextSock,          \* the id of the next socket connection
    connected,         \* the socket ids whose transport is up
    playersBySocket,   \* handlers.js playersBySocket: socket id -> player or NoPlayer
    player,            \* the Player objects ever constructed, by id
    lobby,             \* the Lobby objects ever constructed
    lobbies,           \* Lobby.lobbies: code -> live Lobby object or NoLobby
    graceTimers,       \* pending disconnect timeouts: [pid, lid, held]
    timers,            \* pending game timers: [lid, rid, key, cb, held]
    dealers,           \* suspended startDealing calls: [lid, rid, ids, dealt, pc]
    nextRound,         \* number of round states built so far, plus one
    finished,          \* history: per round, results transitions and broadcasts
    halted,            \* "no", or how the process stopped: "crashed" / "hung"
    ack,               \* the acknowledgement sent by the last step that changed the state
    emits,             \* the events emitted by that step, in order
    removals,          \* history: per player, how often each removal path ran
    now,               \* Date.now(), in ms
    reply,             \* what the last step passed to the callback of player:reconnect
    calc               \* the last call of a pure function: its arguments and its result

vars == <<nextSock, connected, playersBySocket, player, lobby, lobbies,
          graceTimers, timers, dealers, nextRound, finished,
          halted, ack, emits, removals, now, reply, calc>>

\* The socket ids handed out so far.
Sockets == 1..(nextSock - 1)

\* ------------------------------------------------------------ pure helpers
Range(s) == {s[i] : i \in 1..Len(s)}

Remove(s, x) == SelectSeq(s, LAMBDA y : y # x)

\* String.prototype.toUpperCase on the code inputs of the model.
ToUpperCase(c) ==
    CASE c = "abcd" -> "ABCD"
      [] c = "wxyz" -> "WXYZ"
      [] OTHER -> c

\* The length of a code input.
CodeLen(c) ==
    CASE c = "AB" -> 2
      [] c = NoCode -> 0
      [] OTHER -> 4

\* Usernames are sequences of one-character strings.
Lower(ch) ==
    CASE ch = "A" -> "a"
      [] ch = "B" -> "b"
      [] OTHER -> ch

ToLowerCase(u) == [i \in 1..Len(u) |-> Lower(u[i])]

RECURSIVE TrimLeft(_)
TrimLeft(u) == IF u # <<>> /\ Head(u) = " " THEN TrimLeft(Tail(u)) ELSE u

RECURSIVE TrimRight(_)
TrimRight(u) ==
    IF u # <<>> /\ u[Len(u)] = " " THEN TrimRight(SubSeq(u, 1, Len(u) - 1)) ELSE u

Trim(u) == TrimRight(TrimLeft(u))

WordChars == {"a", "b", "c", "d", "A", "B", "1", "_"}

\* validateUsername: <<valid, trimmed>>.
validateUsername(u) ==
    LET trimmed == Trim(u) IN
    IF u = <<>> THEN [valid |-> FALSE, error |-> "Username is required", username |-> <<>>]
    ELSE IF Len(trimmed) < USERNAME_MIN
        THEN [valid |-> FALSE, error |-> "Username must be at least 4 characters", username |-> <<>>]
    ELSE IF Len(trimmed) > USERNAME_MAX
        THEN [valid |-> FALSE, error |-> "Username must be 20 characters or less", username |-> <<>>]
    ELSE IF \E i \in 1..Len(trimmed) : trimmed[i] \notin WordChars
        THEN [valid |-> FALSE, error |-> "Username can only contain letters, numbers, and underscores", username |-> <<>>]
    ELSE [valid |-> TRUE, error |-> "", username |-> trimmed]

\* The name typed on each connection: one name per connection, no two alike
\* in lower case.
NameChars == <<"a", "b", "c", "d", "1", "_">>

UserOf(s) ==
    <<"a", "a", NameChars[(((s - 1) \div Len(NameChars)) % Len(NameChars)) + 1],
      NameChars[((s - 1) % Len(NameChars)) + 1]>>

Usernames(s) == {UserOf(s), <<"a", "b">>}

\* ------------------------------------------------------------- events
\* An emitted event: its name (a game:phase event with its phase), the room it
\* is sent to and the player or round it is about.
Ev(name, to, who) == [ev |-> name, to |-> to, who |-> who]

\* The room of one connection: io.to(socketId) reaches that socket alone.
SocketRoom(s) == "socket:" \o ToString(s)

\* ------------------------------------------------------------- objects
\* new Player(socketId, username)
NewPlayer(s, u) ==
    [socketId |-> s, username |-> u, isHost |-> FALSE, lobbyCode |-> NoCode,
     disconnected |-> FALSE, disconnectTimeout |-> FALSE]

\* Lobby.findByCode
findByCode(code) ==
    IF ToUpperCase(code) \in Codes THEN lobbies[ToUpperCase(code)] ELSE NoLobby

\* A field that is not there (undefined, dropped from what is sent).
Absent == "absent"

\* phaseStartTime: null, or never assigned.
NoTime == 0

\* What a reconnecting client is sent as gameState; NoSnapshot is null.
Snapshot(gameId) ==
    [gameId |-> gameId, phase |-> Absent, grid |-> Absent, questions |-> Absent,
     timeLimit |-> Absent, solved |-> Absent, solvedPlayers |-> Absent,
     results |-> Absent]

NoSnapshot == Snapshot(NoGame)

\* What a step that is no player:reconnect passes to that callback: nothing.
NoReply == [player |-> NoPlayer, lobby |-> NoCode, gameState |-> NoSnapshot]

\* No pure function has been called.
NoCalc == [op |-> "none"]

NoRemovals == [leave |-> 0, grace |-> 0, left |-> 0]

\* A round state: the object a game module's initGame stores in
\* lobby.gameState.  `game` is the module that built it, `rid` its identity;
\* `members` are the player ids it was built for (the keys of scores,
\* submissions, votes or playerHands).  A field a module's state does not have
\* is undefined in the code (Absent, and NoTime for phaseStartTime, which
\* queens sets to null).  `began` is history: the clock when game:start built
\* the round.
RoundState(game, rid, phase, members) ==
    [game |-> game, rid |-> rid, phase |-> phase, members |-> members,
     solved |-> {}, submitted |-> {}, words |-> {}, drawings |-> {},
     viewingOrder |-> <<>>, viewIdx |-> 0, revealed |-> 0, results |-> FALSE,
     grid |-> Absent, solution |-> Absent, questions |-> Absent, votes |-> 0,
     phaseStartTime |-> NoTime, began |-> NoTime]

\* lobby.gameState = null
NullState == RoundState("null", 0, "null", {})

\* lobby.gameState = {} (Lobby.startGame, before the module's initGame)
EmptyState == RoundState("empty", 0, "undefined", {})

\* new Lobby(host), before the host is admitted
NewLobby(code, host) ==
    [code |-> code, players |-> <<>>, hostId |-> host, currentGame |-> NoGame,
     gameState |-> NullState]

\* The heap after a call: the Player objects, the Lobby objects and the
\* registry, with what the call returned or threw.
Heap(pl, lb, reg) == [player |-> pl, lobby |-> lb, lobbies |-> reg]

\* addPlayer with the capacity test off by one.
addPlayerOneMore(lid, pid, h) ==
    IF Len(h.lobby[lid].players) > MAX_LOBBY_PLAYERS
        THEN [heap |-> h, error |-> "Lobby is full (max 8 players)"]
    ELSE IF h.lobby[lid].currentGame # NoGame
        THEN [heap |-> h, error |-> "Cannot join while a game is in progress"]
    ELSE [heap |-> [h EXCEPT
                      !.lobby[lid].players =
                          IF pid \in Range(@) THEN @ ELSE Append(@, pid),
                      !.player[pid].lobbyCode = h.lobby[lid].code],
          error |-> ""]

\* addPlayer without the test of currentGame.
addPlayerAnyTime(lid, pid, h) ==
    IF Len(h.lobby[lid].players) >= MAX_LOBBY_PLAYERS
        THEN [heap |-> h, error |-> "Lobby is full (max 8 players)"]
    ELSE [heap |-> [h EXCEPT
                      !.lobby[lid].players =
                          IF pid \in Range(@) THEN @ ELSE Append(@, pid),
                      !.player[pid].lobbyCode = h.lobby[lid].code],
          error |-> ""]

\* Lobby.addPlayer: the heap afterwards and the error thrown ("" for none).
addPlayer(lid, pid, h) ==
    IF Len(h.lobby[lid].players) >= MAX_LOBBY_PLAYERS
        THEN [heap |-> h, error |-> "Lobby is full (max 8 players)"]
    ELSE IF h.lobby[lid].currentGame # NoGame
        THEN [heap |-> h, error |-> "Cannot join while a game is in progress"]
    ELSE [heap |-> [h EXCEPT
                      !.lobby[lid].players =
                          IF pid \in Range(@) THEN @ ELSE Append(@, pid),
                      !.player[pid].lobbyCode = h.lobby[lid].code],
          error |-> ""]

\* A destroy that leaves the registry entry.
destroyKeepsCode(lid, h) ==
    [h EXCEPT
       !.player = [p \in DOMAIN h.player |->
                     IF p \in Range(h.lobby[lid].players)
                         THEN [h.player[p] EXCEPT !.lobbyCode = NoCode, !.isHost = FALSE]
                         ELSE h.player[p]]]

\* Lobby.destroy
destroy(lid, h) ==
    [h EXCEPT
       !.player = [p \in DOMAIN h.player |->
                     IF p \in Range(h.lobby[lid].players)
                         THEN [h.player[p] EXCEPT !.lobbyCode = NoCode, !.isHost = FALSE]
                         ELSE h.player[p]],
       !.lobbies[h.lobby[lid].code] = NoLobby]

\* removePlayer without the promotion of a new host.
removePlayerNoPromotion(lid, pid, h) ==
    IF pid \notin Range(h.lobby[lid].players)
        THEN [heap |-> h, newHost |-> NoPlayer, destroyed |-> FALSE]
    ELSE
        LET rest == Remove(h.lobby[lid].players, pid)
            h1 == [h EXCEPT !.player[pid].lobbyCode = NoCode,
                            !.lobby[lid].players = rest]
        IN  IF pid = h.lobby[lid].hostId /\ Len(rest) = 0
                THEN [heap |-> destroy(lid, h1), newHost |-> NoPlayer, destroyed |-> TRUE]
                ELSE [heap |-> h1, newHost |-> NoPlayer, destroyed |-> FALSE]

\* removePlayer promoting the latest-joined member.
removePlayerPromoteLast(lid, pid, h) ==
    IF pid \notin Range(h.lobby[lid].players)
        THEN [heap |-> h, newHost |-> NoPlayer, destroyed |-> FALSE]
    ELSE
        LET rest == Remove(h.lobby[lid].players, pid)
            h1 == [h EXCEPT !.player[pid].lobbyCode = NoCode,
                            !.lobby[lid].players = rest]
        IN  IF pid = h.lobby[lid].hostId
                THEN IF Len(rest) > 0
                        THEN [heap |-> [h1 EXCEPT !.player[rest[Len(rest)]].isHost = TRUE,
                                                  !.lobby[lid].hostId = rest[Len(rest)]],
                              newHost |-> rest[Len(rest)], destroyed |-> FALSE]
                        ELSE [heap |-> destroy(lid, h1),
                              newHost |-> NoPlayer, destroyed |-> TRUE]
                ELSE [heap |-> h1, newHost |-> NoPlayer, destroyed |-> FALSE]

\* removePlayer that hands the lobby to a new host without setting its flag.
removePlayerNoFlag(lid, pid, h) ==
    IF pid \notin Range(h.lobby[lid].players)
        THEN [heap |-> h, newHost |-> NoPlayer, destroyed |-> FALSE]
    ELSE
        LET rest == Remove(h.lobby[lid].players, pid)
            h1 == [h EXCEPT !.player[pid].lobbyCode = NoCode,
                            !.lobby[lid].players = rest]
        IN  IF pid = h.lobby[lid].hostId
                THEN IF Len(rest) > 0
                        THEN [heap |-> [h1 EXCEPT !.lobby[lid].hostId = rest[1]],
                              newHost |-> rest[1], destroyed |-> FALSE]
                        ELSE [heap |-> destroy(lid, h1),
                              newHost |-> NoPlayer, destroyed |-> TRUE]
                ELSE [heap |-> h1, newHost |-> NoPlayer, destroyed |-> FALSE]

\* Lobby.removePlayer: the heap afterwards and the result object
\* ({ newHost }, { destroyed: true } or {}).
removePlayer(lid, pid, h) ==
    IF pid \notin Range(h.lobby[lid].players)
        THEN [heap |-> h, newHost |-> NoPlayer, destroyed |-> FALSE]
    ELSE
        LET rest == Remove(h.lobby[lid].players, pid)
            h1 == [h EXCEPT !.player[pid].lobbyCode = NoCode,
                            !.lobby[lid].players = rest]
        IN  IF pid = h.lobby[lid].hostId
                THEN IF Len(rest) > 0
                        THEN [heap |-> [h1 EXCEPT !.player[rest[1]].isHost = TRUE,
                                                  !.lobby[lid].hostId = rest[1]],
                              newHost |-> rest[1], destroyed |-> FALSE]
                        ELSE [heap |-> destroy(lid, h1),
                              newHost |-> NoPlayer, destroyed |-> TRUE]
                ELSE [heap |-> h1, newHost |-> NoPlayer, destroyed |-> FALSE]

\* The heap of the current state.
HeapNow == Heap(player, lobby, lobbies)

\* An object that no reference reaches (the directory, a registered lobby, a
\* pending timer's closure) can never be read again: the model keeps it in
\* one canonical form, as a collected object.
CollectedPlayer == NewPlayer(0, <<>>)

CollectedLobby == NewLobby(NoCode, NoPlayer)

Collect(h, dir, closures) ==
    LET liveLobbies == {h.lobbies[c] : c \in Codes} \cup {t.lid : t \in closures}
        livePlayers == Range(dir)
                         \cup {t.pid : t \in closures}
                         \cup UNION {Range(h.lobby[l].players) :
                                        l \in liveLobbies \cap DOMAIN h.lobby}
    IN  [h EXCEPT
           !.player = [p \in DOMAIN h.player |->
                         IF p \in livePlayers THEN h.player[p] ELSE CollectedPlayer],
           !.lobby = [l \in DOMAIN h.lobby |->
                        IF l \in liveLobbies THEN h.lobby[l]
                        ELSE [CollectedLobby EXCEPT !.code = h.lobby[l].code]]]

\* The closures of the pending timers: each holds a Lobby, the grace timers a
\* Player as well.
Closures(grace, game, deal) ==
    {[pid |-> t.pid, lid |-> t.lid] : t \in grace}
      \cup {[pid |-> NoPlayer, lid |-> t.lid] : t \in game \cup deal}

\* The step leaves the heap h behind (to be stated after the directory and the
\* timers of the next state).
SetHeap(h) ==
    LET g == Collect(h, playersBySocket', Closures(graceTimers', timers', dealers')) IN
    /\ player' = g.player
    /\ lobby' = g.lobby
    /\ lobbies' = g.lobbies

\* A request that is acknowledged with an error before it changed anything:
\* the server's state is what it was (the acknowledgement goes to the client).
Reject(error) ==
    /\ error # "success"
    /\ UNCHANGED <<playersBySocket, player, lobby, lobbies, graceTimers,
                   timers, dealers, nextRound, finished, halted, ack, emits,
                   removals, reply>>

\* ------------------------------------------------------ connection layer
Init ==
    /\ nextSock = 1
    /\ connected = {}
    /\ playersBySocket = <<>>
    /\ player = <<>>
    /\ lobby = <<>>
    /\ lobbies = [c \in Codes |-> NoLobby]
    /\ graceTimers = {}
    /\ timers = {}
    /\ dealers = {}
    /\ nextRound = 1
    /\ finished = <<>>
    /\ halted = "no"
    /\ ack = "none"
    /\ emits = <<>>
    /\ removals = <<>>
    /\ now = Epoch
    /\ reply = NoReply
    /\ calc = NoCalc

Running == halted = "no"

\* io.on('connection'): the transport hands the server a socket with a fresh id.
Connect ==
    /\ Running
    /\ now' = now
    /\ calc' = calc
    /\ connected' = connected \cup {nextSock}
    /\ nextSock' = nextSock + 1
    /\ playersBySocket' = Append(playersBySocket, NoPlayer)
    /\ ack' = "none"
    /\ reply' = NoReply
    /\ emits' = <<>>
    /\ UNCHANGED <<player, lobby, lobbies, graceTimers,
                   timers, dealers, nextRound, finished, halted, removals>>

\* A generator that returns its first draw, existing or not.
generateLobbyCodeOnce(existingCodes) == Codes

\* generateUniqueLobbyCode(existingCodes): the codes the do-while loop can
\* return; none when every code exists, and the loop does not end.
generateUniqueLobbyCode(existingCodes) == Codes \ existingCodes

\* socket.on('lobby:create')
LobbyCreate(s, username) ==
    /\ Running
    /\ now' = now
    /\ calc' = calc
    /\ s \in connected
    /\ UNCHANGED <<nextSock, connected>>
    /\ LET validation == validateUsername(username)
           pid == Len(player) + 1
           lid == Len(lobby) + 1
           existing == {c \in Codes : lobbies[c] # NoLobby}
           created == Append(player, NewPlayer(s, validation.username))
       IN  IF ~validation.valid THEN Reject(validation.error)
           ELSE
             /\ playersBySocket' = [playersBySocket EXCEPT ![s] = pid]
             /\ removals' = Append(removals, NoRemovals)
             /\ emits' = <<>>
             /\ UNCHANGED <<graceTimers, timers, dealers, nextRound, finished>>
             /\ IF generateUniqueLobbyCode(existing) = {}
                   THEN /\ halted' = "hung"
                        /\ ack' = "none"
                        /\ reply' = NoReply
                        /\ SetHeap(Heap(created, lobby, lobbies))
                   ELSE \E code \in generateUniqueLobbyCode(existing) :
                        LET h0 == Heap(created, Append(lobby, NewLobby(code, pid)), lobbies)
                            h1 == addPlayer(lid, pid, h0).heap
                            h2 == [h1 EXCEPT !.player[pid].isHost = TRUE,
                                             !.player[pid].lobbyCode = code,
                                             !.lobbies[code] = lid]
                        IN  /\ halted' = halted
                            /\ ack' = "success"
                            /\ reply' = NoReply
                            /\ SetHeap(h2)

\* socket.on('lobby:join')
LobbyJoin(s, username, codeInput) ==
    /\ Running
    /\ now' = now
    /\ calc' = calc
    /\ s \in connected
    /\ UNCHANGED <<nextSock, connected>>
    /\ LET validation == validateUsername(username)
           lobbyCode == ToUpperCase(codeInput)
           lid == findByCode(lobbyCode)
           pid == Len(player) + 1
           h0 == Heap(Append(player, NewPlayer(s, validation.username)), lobby, lobbies)
           r  == addPlayer(lid, pid, h0)
       IN  IF ~validation.valid THEN Reject(validation.error)
           ELSE IF codeInput = NoCode \/ CodeLen(lobbyCode) # CODE_LENGTH
               THEN Reject("Invalid lobby code")
           ELSE IF lid = NoLobby THEN Reject("Lobby not found")
           ELSE IF \E q \in Range(lobby[lid].players) :
                      ToLowerCase(player[q].username) = ToLowerCase(validation.username)
               THEN Reject("Username already taken in this lobby")
           ELSE
             /\ playersBySocket' = [playersBySocket EXCEPT ![s] = pid]
             /\ removals' = Append(removals, NoRemovals)
             /\ ack' = IF r.error = "" THEN "success" ELSE r.error
             /\ reply' = NoReply
             /\ emits' = IF r.error = ""
                           THEN <<Ev("lobby:player-joined", lobby[lid].code, pid)>>
                           ELSE <<>>
             /\ UNCHANGED <<graceTimers, timers, dealers, nextRound, finished, halted>>
             /\ SetHeap(r.heap)

\* What handlePlayerLeave and the grace timer emit after removePlayer.
RemovalEvents(code, pid, result) ==
    (IF ~result.destroyed /\ result.newHost # NoPlayer
        THEN <<Ev("lobby:host-changed", code, result.newHost)>>
        ELSE <<>>)
    \o <<Ev("lobby:player-left", code, pid)>>

\* The history of a removal path that ran for pid in the Lobby object lid.
Removed(path, lid, pid) ==
    [removals EXCEPT
       ![pid] = [leave |-> @.leave + (IF path = "leave" /\ pid \in Range(lobby[lid].players)
                                         THEN 1 ELSE 0),
                 grace |-> @.grace + (IF path = "grace" /\ pid \in Range(lobby[lid].players)
                                         THEN 1 ELSE 0),
                 left  |-> @.left + 1]]

\* The Lobby a socket's player is in: Lobby.findByCode(player.lobbyCode), or null.
LobbyOf(pid) ==
    IF pid # NoPlayer /\ player[pid].lobbyCode # NoCode
        THEN findByCode(player[pid].lobbyCode) ELSE NoLobby

\* handlePlayerLeave(socket, io), called by socket.on('lobby:leave')
handlePlayerLeave(s) ==
    LET pid == playersBySocket[s]
        lid == LobbyOf(pid)
        result == removePlayer(lid, pid, HeapNow)
    IN  IF pid = NoPlayer
            THEN UNCHANGED <<playersBySocket, player, lobby, lobbies, removals, emits, ack,
                             reply>>
        ELSE
            /\ playersBySocket' = [playersBySocket EXCEPT ![s] = NoPlayer]
            /\ ack' = "success"
            /\ reply' = NoReply
            /\ emits' = IF lid = NoLobby THEN <<>>
                          ELSE RemovalEvents(lobby[lid].code, pid, result)
            /\ removals' = IF lid = NoLobby THEN removals ELSE Removed("leave", lid, pid)
            /\ SetHeap(IF lid = NoLobby THEN HeapNow ELSE result.heap)

LobbyLeave(s) ==
    /\ Running
    /\ now' = now
    /\ calc' = calc
    /\ s \in connected
    /\ UNCHANGED <<nextSock, connected, graceTimers, timers, dealers, nextRound,
                   finished, halted>>
    /\ handlePlayerLeave(s)

\* A handlePlayerDisconnect that starts the grace timer without marking the
\* player disconnected.
handlePlayerDisconnectUnmarked(s) ==
    LET pid == playersBySocket[s]
        lid == LobbyOf(pid)
    IN  /\ playersBySocket' = [playersBySocket EXCEPT ![s] = NoPlayer]
        /\ graceTimers' =
              IF lid = NoLobby THEN graceTimers
              ELSE {[t EXCEPT !.held = IF t.pid = pid THEN FALSE ELSE @] : t \in graceTimers}
                     \cup {[pid |-> pid, lid |-> lid, held |-> TRUE]}
        /\ emits' = IF lid = NoLobby THEN <<>>
                      ELSE <<Ev("lobby:player-disconnected", lobby[lid].code, pid)>>
        /\ SetHeap(IF lid = NoLobby THEN HeapNow
                   ELSE [HeapNow EXCEPT !.player[pid].disconnectTimeout = TRUE])

\* handlePlayerDisconnect(socket, io), called by socket.on('disconnect')
handlePlayerDisconnect(s) ==
    LET pid == playersBySocket[s]
        lid == LobbyOf(pid)
    IN  /\ playersBySocket' = [playersBySocket EXCEPT ![s] = NoPlayer]
        /\ graceTimers' =
              IF lid = NoLobby THEN graceTimers
              ELSE {[t EXCEPT !.held = IF t.pid = pid THEN FALSE ELSE @] : t \in graceTimers}
                     \cup {[pid |-> pid, lid |-> lid, held |-> TRUE]}
        /\ emits' = IF lid = NoLobby THEN <<>>
                      ELSE <<Ev("lobby:player-disconnected", lobby[lid].code, pid)>>
        /\ SetHeap(IF lid = NoLobby THEN HeapNow
                   ELSE [HeapNow EXCEPT !.player[pid].disconnected = TRUE,
                                        !.player[pid].disconnectTimeout = TRUE])

Disconnect(s) ==
    /\ Running
    /\ now' = now
    /\ calc' = calc
    /\ s \in connected
    /\ connected' = connected \ {s}
    /\ ack' = "none"
    /\ reply' = NoReply
    /\ UNCHANGED <<nextSock, timers, dealers, nextRound, finished, halted, removals>>
    /\ handlePlayerDisconnect(s)

\* The callback of the grace timer set by handlePlayerDisconnect.
GraceExpire(t) ==
    /\ Running
    /\ now' = now
    /\ calc' = calc
    /\ t \in graceTimers
    /\ LET h0 == [HeapNow EXCEPT !.player[t.pid].disconnectTimeout = FALSE]
           result == removePlayer(t.lid, t.pid, h0)
       IN  /\ graceTimers' = {[u EXCEPT !.held = IF u.pid = t.pid THEN FALSE ELSE @]
                                 : u \in graceTimers \ {t}}
           /\ emits' = RemovalEvents(lobby[t.lid].code, t.pid, result)
           /\ removals' = Removed("grace", t.lid, t.pid)
           /\ ack' = "none"
           /\ reply' = NoReply
           /\ UNCHANGED <<nextSock, connected, playersBySocket, timers, dealers,
                          nextRound, finished, halted>>
           /\ SetHeap(result.heap)

\* Math.max(0, limit - (Date.now() - (state.phaseStartTime || Date.now())))
remaining(limit, gs) ==
    LET elapsed == now - (IF gs.phaseStartTime # NoTime THEN gs.phaseStartTime ELSE now)
    IN  IF limit - elapsed > 0 THEN limit - elapsed ELSE 0

\* A snapshot that hands out the stored solution in place of the grid.
queensReconnectLeaks(gs, pid, snap) ==
    IF gs.phase = "playing"
        THEN [snap EXCEPT !.phase = "playing", !.grid = gs.solution,
                          !.timeLimit = remaining(TIME_LIMIT, gs),
                          !.solved = pid \in gs.solved, !.solvedPlayers = gs.solved]
    ELSE snap

\* getReconnectState of queens, spread over snap; a phase that is undefined
\* is not sent.
queensReconnectState(gs, pid, snap) ==
    IF gs.game = "null" THEN snap
    ELSE IF gs.phase = "playing"
        THEN [snap EXCEPT !.phase = "playing", !.grid = gs.grid,
                          !.timeLimit = remaining(TIME_LIMIT, gs),
                          !.solved = pid \in gs.solved, !.solvedPlayers = gs.solved]
    ELSE IF gs.phase = "results"
        THEN [snap EXCEPT !.phase = "results", !.results = gs.results]
    ELSE [snap EXCEPT !.phase = IF gs.phase = "undefined" THEN Absent ELSE gs.phase]

\* getReconnectState of multiply-madness, spread over snap
mmReconnectState(gs, pid, snap) ==
    IF gs.game = "null" THEN snap
    ELSE IF gs.phase = "playing"
        THEN [snap EXCEPT !.phase = "playing", !.questions = gs.questions,
                          !.timeLimit = remaining(GAME_DURATION, gs)]
    ELSE IF gs.phase = "results"
        THEN [snap EXCEPT !.phase = "results", !.results = gs.results]
    ELSE [snap EXCEPT !.phase = IF gs.phase = "undefined" THEN Absent ELSE gs.phase]

\* buildReconnectGameState(lobby, playerId): the modules of dead-draw-poker
\* and of the drawing game export no getReconnectState.
buildReconnectGameState(lid, pid) ==
    LET game == lobby[lid].currentGame
        gs == lobby[lid].gameState
    IN  CASE game = "queens" -> queensReconnectState(gs, pid, Snapshot(game))
          [] game = "multiply-madness" -> mmReconnectState(gs, pid, Snapshot(game))
          [] OTHER -> Snapshot(game)

\* A reconnect that leaves the removal timer pending.
keepTimeout(pid, grace) == grace

\* if (player.disconnectTimeout) clearTimeout(player.disconnectTimeout):
\* the pending grace timers afterwards.
clearTimeout(pid, grace) ==
    IF player[pid].disconnectTimeout
        THEN {t \in grace : ~(t.pid = pid /\ t.held)}
        ELSE grace

\* A reconnect that forgets to clear the disconnected flag.
rebindOnly(pid, s, h) ==
    [h EXCEPT !.player[pid].disconnectTimeout = FALSE,
              !.player[pid].socketId = s]

\* player:reconnect's update of the Player object.
rebind(pid, s, h) ==
    [h EXCEPT !.player[pid].disconnectTimeout = FALSE,
              !.player[pid].socketId = s,
              !.player[pid].disconnected = FALSE]

\* socket.on('player:reconnect')
PlayerReconnect(s, playerId, codeInput) ==
    /\ Running
    /\ now' = now
    /\ calc' = calc
    /\ s \in connected
    /\ UNCHANGED <<nextSock, connected>>
    /\ LET lid == findByCode(codeInput) IN
       IF playerId = NoPlayer \/ codeInput = NoCode
           THEN Reject("Missing playerId or lobbyCode")
       ELSE IF lid = NoLobby THEN Reject("Lobby not found")
       ELSE IF playerId \notin Range(lobby[lid].players)
           THEN Reject("Player not found in lobby")
       ELSE
         /\ graceTimers' = clearTimeout(playerId, graceTimers)
         /\ playersBySocket' =
                [[playersBySocket EXCEPT ![player[playerId].socketId] = NoPlayer]
                    EXCEPT ![s] = playerId]
         /\ emits' = <<Ev("lobby:player-reconnected", lobby[lid].code, playerId)>>
         /\ ack' = "success"
         /\ reply' = [player |-> playerId, lobby |-> lobby[lid].code,
                      gameState |-> IF lobby[lid].currentGame # NoGame
                                       THEN buildReconnectGameState(lid, playerId)
                                       ELSE NoSnapshot]
         /\ UNCHANGED <<timers, dealers, nextRound, finished, halted, removals>>
         /\ SetHeap(rebind(playerId, s, HeapNow))

\* ------------------------------------------------------------ the rounds
\* Lobby.startGame: the Lobby objects afterwards (the caller has checked the
\* member count, so the throw of line 78 is not reached from the handler).
startGame(lid, gameName, lb) ==
    [lb EXCEPT ![lid].currentGame = gameName, ![lid].gameState = EmptyState]

\* An endGame that forgets the round state.
endGameKeepsState(lid, lb) ==
    [lb EXCEPT ![lid].currentGame = NoGame]

\* Lobby.endGame
endGame(lid, lb) ==
    [lb EXCEPT ![lid].currentGame = NoGame, ![lid].gameState = NullState]

\* What a game function works on: the Lobby objects, the pending timers, the
\* history of results, the events emitted so far, and whether it threw.
World(lb, tm, fin) ==
    [lobby |-> lb, timers |-> tm, finished |-> fin, out |-> <<>>, threw |-> FALSE]

Emit(w, name, to, who) == [w EXCEPT !.out = Append(@, Ev(name, to, who))]

Throw(w) == [w EXCEPT !.threw = TRUE]

State(w, lid) == w.lobby[lid].gameState

\* Which modules' round states have a timers / scores field.
HasTimers(gs) == gs.game \in {"queens", "multiply-madness", "drawing-game"}

HasScores(gs) == gs.game \in {"multiply-madness", "drawing-game"}

\* state.timers[key] = setTimeout(cb): the handle stored under the key is the
\* new timer's; a timer whose handle is overwritten stays pending.
SetTimer(w, lid, key, cb) ==
    LET rid == State(w, lid).rid IN
    IF ~HasTimers(State(w, lid)) THEN Throw(w)
    ELSE [w EXCEPT !.timers =
            {IF u.lid = lid /\ u.rid = rid /\ u.key = key
                THEN [u EXCEPT !.held = FALSE] ELSE u : u \in @}
              \cup {[lid |-> lid, rid |-> rid, key |-> key, cb |-> cb, held |-> TRUE]}]

\* clearTimeout(state.timers[key])
ClearTimer(w, lid, key) ==
    LET rid == State(w, lid).rid IN
    IF ~HasTimers(State(w, lid)) THEN Throw(w)
    ELSE [w EXCEPT !.timers =
            {u \in @ : ~(u.lid = lid /\ u.rid = rid /\ u.key = key /\ u.held)}]

\* state.phase = 'results', with the history of the round's results transitions.
EnterResults(w, lid) ==
    LET gs == State(w, lid) IN
    [w EXCEPT !.lobby[lid].gameState.phase = "results",
              !.finished = IF gs.rid # 0 /\ gs.phase # "results"
                              THEN [@ EXCEPT ![gs.rid].transitions = @ + 1] ELSE @]

\* state.results = ...; the two emits that end every finish function.
BroadcastResults(w, lid) ==
    LET gs == State(w, lid)
        w1 == [w EXCEPT !.lobby[lid].gameState.results = TRUE,
                        !.finished = IF gs.rid # 0
                                        THEN [@ EXCEPT ![gs.rid].broadcasts = @ + 1] ELSE @]
    IN  Emit(Emit(w1, "game:phase:results", w.lobby[lid].code, gs.rid),
             "game:results", w.lobby[lid].code, gs.rid)

\* --- multiply-madness
mmInitGame(lid, rid, lb) ==
    [lb EXCEPT ![lid].gameState =
        [RoundState("multiply-madness", rid, "playing", Range(lb[lid].players))
            EXCEPT !.questions = "questions"]]

\* finishGame of multiply-madness
mmFinishGame(w, lid) ==
    LET gs == State(w, lid) IN
    IF gs.game = "null" THEN Throw(w)
    ELSE IF gs.phase = "results" THEN w
    ELSE IF ~HasScores(gs) THEN Throw(EnterResults(w, lid))
    ELSE BroadcastResults(EnterResults(w, lid), lid)

\* startGame of multiply-madness
mmStartGame(w, lid) ==
    LET w1 == [w EXCEPT !.lobby[lid].gameState.phaseStartTime = now] IN
    SetTimer(Emit(w1, "game:phase:playing", w.lobby[lid].code, State(w, lid).rid),
             lid, "gameEnd", "mmFinishGame")

\* A submitScore that does not look at the phase.
submitScoreAnyPhase(w, lid, pid) ==
    LET gs == State(w, lid)
        w1 == [w EXCEPT !.lobby[lid].gameState.submitted = @ \cup {pid}]
        allSubmitted == gs.members \subseteq (gs.submitted \cup {pid})
    IN  [w |-> IF allSubmitted THEN mmFinishGame(ClearTimer(w1, lid, "gameEnd"), lid)
               ELSE w1,
         ack |-> "success"]

\* submitScore
submitScore(w, lid, pid) ==
    LET gs == State(w, lid)
        w1 == [w EXCEPT !.lobby[lid].gameState.submitted = @ \cup {pid}]
        allSubmitted == gs.members \subseteq (gs.submitted \cup {pid})
    IN  IF gs.phase # "playing" THEN [w |-> w, ack |-> "Game is not in playing phase"]
        ELSE [w |-> IF allSubmitted THEN mmFinishGame(ClearTimer(w1, lid, "gameEnd"), lid)
                    ELSE w1,
              ack |-> "success"]

\* --- queens
\* initGame of queens; generatePuzzle throws when its attempts are used up.
queensInitGame(lid, rid, lb) ==
    [lb EXCEPT ![lid].gameState =
        [RoundState("queens", rid, "playing", {})
            EXCEPT !.grid = "grid", !.solution = "solution"]]

\* finishGame of queens
queensFinishGame(w, lid) ==
    LET gs == State(w, lid) IN
    IF gs.game = "null" THEN Throw(w)
    ELSE IF gs.phase = "results" THEN w
    ELSE IF gs.game # "queens" /\ w.lobby[lid].players # <<>> THEN Throw(EnterResults(w, lid))
    ELSE BroadcastResults(EnterResults(w, lid), lid)

\* The placements a client submits: the puzzle's solution, or another one.
Placements == {"solution", "other"}

\* validateSolution(state.grid, queens) on the placements of the round model:
\* the stored grid is a token and its stored solution is the placement accepted.
validates(queens) == queens = "solution"

\* submitSolution: the world afterwards and the object returned (its error
\* and correct fields; ack is what tells the outcomes apart).
submitSolution(w, lid, pid, queens) ==
    LET gs == State(w, lid)
        w1 == Emit([w EXCEPT !.lobby[lid].gameState.solved = @ \cup {pid}],
                   "game:player-solved", w.lobby[lid].code, pid)
        solvedCount == Cardinality(gs.solved \cup {pid})
    IN  IF gs.phase # "playing"
            THEN [w |-> w, ack |-> "Game is not in playing phase",
                  error |-> "Game is not in playing phase", correct |-> Absent]
        ELSE IF pid \in gs.solved
            THEN [w |-> w, ack |-> "Already solved",
                  error |-> "Already solved", correct |-> TRUE]
        ELSE IF ~validates(queens)
            THEN [w |-> w, ack |-> "incorrect", error |-> Absent, correct |-> FALSE]
        ELSE [w |-> IF solvedCount >= Len(w.lobby[lid].players)
                       THEN queensFinishGame(ClearTimer(w1, lid, "gameEnd"), lid)
                       ELSE w1,
              ack |-> "correct", error |-> Absent, correct |-> TRUE]

\* --- drawing-game
drawingInitGame(lid, rid, lb) ==
    [lb EXCEPT ![lid].gameState =
        RoundState("drawing-game", rid, "word-submission", Range(lb[lid].players))]

\* The orders shuffleArray can return for the players of a lobby.
Shuffles(seq) ==
    {o \in [1..Len(seq) -> Range(seq)] : Range(o) = Range(seq)}

\* finishViewing
finishViewing(w, lid) ==
    LET gs == State(w, lid)
        w1 == EnterResults(w, lid)
    IN  IF ~HasScores(gs) THEN Throw(w1)
        ELSE IF gs.members \cap Range(w.lobby[lid].players) = {} THEN Throw(w1)
        ELSE BroadcastResults(w1, lid)

\* showNextDrawing: the first index from viewIdx on whose player is still in
\* the lobby (the skip loop of lines 372-377), or past the end.
RECURSIVE NextShown(_, _, _)
NextShown(order, idx, members) ==
    IF idx >= Len(order) \/ order[idx + 1] \in members THEN idx
    ELSE NextShown(order, idx + 1, members)

showNextDrawing(w, lid) ==
    LET gs == State(w, lid)
        idx == NextShown(gs.viewingOrder, gs.viewIdx, Range(w.lobby[lid].players))
        w1 == [w EXCEPT !.lobby[lid].gameState.viewIdx = idx]
    IN  IF idx >= Len(gs.viewingOrder) THEN finishViewing(w1, lid)
        ELSE IF gs.game # "drawing-game" THEN Throw(w1)
        ELSE SetTimer(Emit(w1, "game:show-drawing", w.lobby[lid].code, gs.viewingOrder[idx + 1]),
                      lid, "viewing", "nextDrawing")

\* finishDrawing, with the order its shuffle returned
finishDrawing(w, lid, order) ==
    LET gs == State(w, lid)
        w1 == [w EXCEPT !.lobby[lid].gameState.viewingOrder = order,
                        !.lobby[lid].gameState.viewIdx = 0,
                        !.lobby[lid].gameState.phase = "viewing"]
    IN  IF gs.game = "null" THEN Throw(w)
        ELSE showNextDrawing(Emit(w1, "game:phase:viewing", w.lobby[lid].code, gs.rid), lid)

\* The callback of the viewing timer (lines 391-394).
nextDrawing(w, lid) ==
    LET gs == State(w, lid) IN
    IF gs.game # "drawing-game" THEN Throw(w)
    ELSE showNextDrawing([w EXCEPT !.lobby[lid].gameState.viewIdx = @ + 1], lid)

\* finishWordSubmission
finishWordSubmission(w, lid) ==
    LET gs == State(w, lid)
        w1 == [w EXCEPT !.lobby[lid].gameState.phase = "drawing"]
    IN  IF gs.game # "drawing-game" THEN Throw(w)
        ELSE SetTimer(Emit(w1, "game:phase:drawing", w.lobby[lid].code, gs.rid),
                      lid, "drawing", "finishDrawing")

\* startWordSubmission
startWordSubmission(w, lid) ==
    LET w1 == [w EXCEPT !.lobby[lid].gameState.phase = "word-submission"] IN
    SetTimer(Emit(w1, "game:phase:word-submission", w.lobby[lid].code, State(w, lid).rid),
             lid, "wordSubmission", "finishWordSubmission")

\* submitWord; word is "" or a word
submitWord(w, lid, pid, word) ==
    LET gs == State(w, lid)
        w1 == Emit([w EXCEPT !.lobby[lid].gameState.words = @ \cup {pid}],
                   "game:word-submitted", w.lobby[lid].code, pid)
    IN  IF gs.phase # "word-submission" THEN [w |-> w, ack |-> "Not in word submission phase"]
        ELSE IF word = "" THEN [w |-> w, ack |-> "Word cannot be empty"]
        ELSE [w |-> IF Cardinality(gs.words \cup {pid}) = Len(w.lobby[lid].players)
                       THEN finishWordSubmission(ClearTimer(w1, lid, "wordSubmission"), lid)
                       ELSE w1,
              ack |-> "success"]

\* submitVote; what it adds to votes and scores is kept as the number of
\* votes recorded.
submitVote(w, lid, voterId, drawingOwnerId, voteType) ==
    LET gs == State(w, lid)
        currentDrawingOwner ==
            IF gs.viewIdx < Len(gs.viewingOrder) THEN gs.viewingOrder[gs.viewIdx + 1]
            ELSE NoPlayer
    IN  IF gs.phase # "viewing" THEN [w |-> w, ack |-> "Not in viewing phase"]
        ELSE IF voterId = drawingOwnerId
            THEN [w |-> w, ack |-> "Cannot vote for your own drawing"]
        ELSE IF voteType \notin {"up", "down"} THEN [w |-> w, ack |-> "Invalid vote type"]
        ELSE IF drawingOwnerId # currentDrawingOwner
            THEN [w |-> w, ack |-> "Can only vote for the current drawing"]
        ELSE [w |-> [w EXCEPT !.lobby[lid].gameState.votes = @ + 1], ack |-> "success"]

\* submitDrawing, with the order the shuffle of finishDrawing returns
submitDrawing(w, lid, pid, order) ==
    LET gs == State(w, lid)
        w1 == Emit([w EXCEPT !.lobby[lid].gameState.drawings = @ \cup {pid}],
                   "game:drawing-submitted", w.lobby[lid].code, pid)
    IN  IF gs.phase # "drawing" THEN [w |-> w, ack |-> "Not in drawing phase"]
        ELSE [w |-> IF Cardinality(gs.drawings \cup {pid}) = Len(w.lobby[lid].players)
                       THEN finishDrawing(ClearTimer(w1, lid, "drawing"), lid, order)
                       ELSE w1,
              ack |-> "success"]

\* --- dead-draw-poker
pokerInitGame(lid, rid, lb) ==
    [lb EXCEPT ![lid].gameState =
        RoundState("dead-draw-poker", rid, "dealing", Range(lb[lid].players))]

\* evaluateResults(lobby) throws when lobby.gameState has no playerHands or a
\* dealt player is no longer in the lobby.
evaluateThrows(w, lid) ==
    LET gs == State(w, lid) IN
    \/ gs.game # "dead-draw-poker"
    \/ ~(gs.members \subseteq Range(w.lobby[lid].players))

\* The steps of startDealing between two awaits.  d is the suspended call:
\* its lobby, the round state it captured (by rid), the player ids it
\* captured, the number of hole-card hands dealt and where it stands: "hole",
\* then "flop", "flop1", "flop2", "turn", "river", "evaluate".
PokerSteps == <<"flop", "flop1", "flop2", "turn", "river", "evaluate">>

NextPc(pc) == PokerSteps[(CHOOSE i \in 1..5 : PokerSteps[i] = pc) + 1]

\* The captured round state is lobby.gameState as long as no later round or
\* end-round replaced it.
Captured(w, d) == State(w, d.lid).rid = d.rid

Reveal(w, d) ==
    LET w1 == IF Captured(w, d)
                 THEN [w EXCEPT !.lobby[d.lid].gameState.revealed = @ + 1] ELSE w
    IN  Emit(w1, "game:community-card", w.lobby[d.lid].code, d.rid)

\* A dealer that sends a player's hole cards to the room of the lobby.
holeCardsToLobby(w, lid, pid) == w.lobby[lid].code

\* io.to(player.socketId): where the hole cards of player pid are sent.
holeCardsTo(w, lid, pid) == SocketRoom(player[pid].socketId)

\* One resumption of startDealing: the world afterwards, the number of
\* hole-card hands dealt and the next position ("done" when the call returned).
dealStep(w, d) ==
    LET code == w.lobby[d.lid].code
        members == Range(w.lobby[d.lid].players)
    IN  IF d.pc = "hole" THEN
            IF d.dealt < Len(d.ids) THEN
                IF d.ids[d.dealt + 1] \in members
                    THEN [w |-> Emit(w, "game:hole-cards",
                                     holeCardsTo(w, d.lid, d.ids[d.dealt + 1]),
                                     d.ids[d.dealt + 1]),
                          dealt |-> d.dealt + 1, pc |-> "hole"]
                    ELSE [w |-> Throw(w), dealt |-> d.dealt, pc |-> "done"]
            ELSE [w |-> Emit(w, "game:hole-cards-complete", code, d.rid),
                  dealt |-> d.dealt, pc |-> "flop"]
        ELSE IF d.pc \in {"flop", "turn", "river"} THEN
            [w |-> Reveal(Emit(w, "game:phase:" \o d.pc, code, d.rid), d),
             dealt |-> d.dealt, pc |-> NextPc(d.pc)]
        ELSE IF d.pc \in {"flop1", "flop2"} THEN
            [w |-> Reveal(w, d), dealt |-> d.dealt, pc |-> NextPc(d.pc)]
        ELSE \* "evaluate"
            LET w1 == IF Captured(w, d) THEN EnterResults(w, d.lid)
                      ELSE [w EXCEPT !.finished[d.rid].transitions =
                                        IF @ = 0 THEN 1 ELSE @]
                w2 == IF Captured(w1, d)
                         THEN [w1 EXCEPT !.lobby[d.lid].gameState.results = TRUE] ELSE w1
                sent == State(w, d.lid).rid
                w3 == [w2 EXCEPT !.finished[sent].broadcasts = @ + 1]
            IN  IF evaluateThrows(w, d.lid)
                    THEN [w |-> Throw(w1), dealt |-> d.dealt, pc |-> "done"]
                ELSE [w |-> Emit(Emit(w3, "game:phase:results", code, sent),
                                 "game:results", code, sent),
                      dealt |-> d.dealt, pc |-> "done"]

\* --- the handlers and callbacks of the rounds
\* The state a game function leaves behind.
SetWorld(w) ==
    /\ timers' = w.timers
    /\ finished' = w.finished
    /\ emits' = w.out

NoAction == [w |-> World(lobby, timers, finished), ack |-> "none"]

\* socket.on('game:start'); puzzle tells whether generatePuzzle returns a puzzle
\* or throws, the two outcomes of its interface (generatePuzzle, further down,
\* is the generator itself, and Puzzles the attempts with which it returns).
GameStart(s, gameId, puzzle) ==
    /\ Running
    /\ now' = now
    /\ calc' = calc
    /\ s \in connected
    /\ UNCHANGED <<nextSock, connected>>
    /\ LET pid == playersBySocket[s]
           lid == LobbyOf(pid)
           rid == nextRound
           started == startGame(lid, gameId, lobby)
           built ==
               CASE gameId = "dead-draw-poker" -> pokerInitGame(lid, rid, started)
                 [] gameId = "drawing-game" -> drawingInitGame(lid, rid, started)
                 [] gameId = "multiply-madness" -> mmInitGame(lid, rid, started)
                 [] OTHER -> queensInitGame(lid, rid, started)
           initialised == [built EXCEPT ![lid].gameState.began = now]
           w0 == Emit(World(initialised, timers,
                            Append(finished, [transitions |-> 0, broadcasts |-> 0])),
                      "game:started", lobby[lid].code, rid)
           dealer == [lid |-> lid, rid |-> rid, ids |-> lobby[lid].players,
                      dealt |-> 0, pc |-> "hole"]
           dealt == dealStep(Emit(w0, "game:phase:dealing-hole-cards", lobby[lid].code, rid),
                             dealer)
           w1 == CASE gameId = "dead-draw-poker" -> [dealt.w EXCEPT !.threw = FALSE]
                   [] gameId = "drawing-game" -> startWordSubmission(w0, lid)
                   [] gameId = "multiply-madness" -> mmStartGame(w0, lid)
                   [] OTHER -> w0
       IN  IF pid = NoPlayer \/ player[pid].lobbyCode = NoCode THEN Reject("Not in a lobby")
           ELSE IF lid = NoLobby THEN Reject("Lobby not found")
           ELSE IF lobby[lid].hostId # pid THEN Reject("Only the host can start a game")
           ELSE IF gameId \notin GameIds THEN Reject("Invalid game")
           ELSE IF Len(lobby[lid].players) < MIN_START_PLAYERS
               THEN Reject("Need at least 2 players to start")
           ELSE IF gameId = "queens" /\ ~puzzle
               THEN /\ ack' = "Failed to generate a valid Queens puzzle"
                    /\ reply' = NoReply
                    /\ emits' = <<>>
                    /\ UNCHANGED <<playersBySocket, graceTimers, timers, dealers,
                                   nextRound, finished, halted, removals>>
                    /\ SetHeap(Heap(player, started, lobbies))
           ELSE /\ nextRound' = nextRound + 1
                /\ dealers' = IF gameId = "dead-draw-poker" /\ dealt.pc # "done"
                                 THEN dealers \cup {[dealer EXCEPT !.pc = dealt.pc,
                                                                 !.dealt = dealt.dealt]}
                                 ELSE dealers
                /\ SetWorld(w1)
                /\ ack' = IF w1.threw THEN "error" ELSE "success"
                /\ reply' = NoReply
                /\ UNCHANGED <<playersBySocket, graceTimers, halted, removals>>
                /\ SetHeap(Heap(player, w1.lobby, lobbies))

\* The handleAction of the module of the lobby's current game.
handleAction(lid, pid, action, data, order) ==
    LET game == lobby[lid].currentGame
        w == World(lobby, timers, finished)
    IN  CASE game = "queens" /\ action = "submit-solution" -> submitSolution(w, lid, pid, data)
          [] game = "multiply-madness" /\ action = "submit-score" -> submitScore(w, lid, pid)
          [] game = "drawing-game" /\ action = "submit-word" -> submitWord(w, lid, pid, data)
          [] game = "drawing-game" /\ action = "submit-drawing" ->
                 submitDrawing(w, lid, pid, order)
          [] game = "drawing-game" /\ action = "vote" ->
                 submitVote(w, lid, pid, data.drawingOwnerId, data.voteType)
          [] game = "dead-draw-poker" ->
                 [w |-> w, ack |-> "No actions available in Dead Draw Poker"]
          [] OTHER -> [w |-> w, ack |-> "Unknown action"]

\* socket.on('game:action')
GameAction(s, action, data, order) ==
    /\ Running
    /\ now' = now
    /\ calc' = calc
    /\ s \in connected
    /\ UNCHANGED <<nextSock, connected>>
    /\ LET pid == playersBySocket[s]
           lid == LobbyOf(pid)
           r == handleAction(lid, pid, action, data, order)
       IN  IF pid = NoPlayer \/ player[pid].lobbyCode = NoCode THEN Reject("Not in a lobby")
           ELSE IF lid = NoLobby \/ lobby[lid].currentGame = NoGame
               THEN Reject("No game in progress")
           ELSE IF r.w = World(lobby, timers, finished) THEN Reject(r.ack)
           ELSE /\ SetWorld(r.w)
                /\ ack' = IF r.w.threw THEN "error" ELSE r.ack
                /\ reply' = NoReply
                /\ UNCHANGED <<playersBySocket, graceTimers, dealers, nextRound,
                               halted, removals>>
                /\ SetHeap(Heap(player, r.w.lobby, lobbies))

\* The endGame of a module that keeps timers (queens, multiply-madness,
\* drawing-game), and the one of dead-draw-poker, which keeps none.
moduleEndGame(w, lid) ==
    LET gs == State(w, lid)
        cleared == IF lobby[lid].currentGame # "dead-draw-poker" /\ HasTimers(gs)
                      THEN {u \in w.timers : ~(u.lid = lid /\ u.rid = gs.rid /\ u.held)}
                      ELSE w.timers
    IN  [w EXCEPT !.timers = cleared, !.lobby = endGame(lid, @)]

\* A game:end that any member may send.
GameEndByAnyone(s) ==
    /\ Running
    /\ now' = now
    /\ calc' = calc
    /\ s \in connected
    /\ UNCHANGED <<nextSock, connected>>
    /\ LET pid == playersBySocket[s]
           lid == LobbyOf(pid)
           w0 == World(lobby, timers, finished)
           w1 == IF lobby[lid].currentGame # NoGame THEN moduleEndGame(w0, lid) ELSE w0
           w2 == Emit(w1, "game:ended", lobby[lid].code, pid)
       IN  IF pid = NoPlayer \/ player[pid].lobbyCode = NoCode THEN Reject("Not in a lobby")
           ELSE IF lid = NoLobby THEN Reject("Lobby not found")
           ELSE /\ SetWorld(w2)
                /\ ack' = "success"
                /\ reply' = NoReply
                /\ UNCHANGED <<playersBySocket, graceTimers, dealers, nextRound,
                               halted, removals>>
                /\ SetHeap(Heap(player, w2.lobby, lobbies))

\* socket.on('game:end')
GameEnd(s) ==
    /\ Running
    /\ now' = now
    /\ calc' = calc
    /\ s \in connected
    /\ UNCHANGED <<nextSock, connected>>
    /\ LET pid == playersBySocket[s]
           lid == LobbyOf(pid)
           w0 == World(lobby, timers, finished)
           w1 == IF lobby[lid].currentGame # NoGame THEN moduleEndGame(w0, lid) ELSE w0
           w2 == Emit(w1, "game:ended", lobby[lid].code, pid)
       IN  IF pid = NoPlayer \/ player[pid].lobbyCode = NoCode THEN Reject("Not in a lobby")
           ELSE IF lid = NoLobby THEN Reject("Lobby not found")
           ELSE IF lobby[lid].hostId # pid THEN Reject("Only the host can end the game")
           ELSE /\ SetWorld(w2)
                /\ ack' = "success"
                /\ reply' = NoReply
                /\ UNCHANGED <<playersBySocket, graceTimers, dealers, nextRound,
                               halted, removals>>
                /\ SetHeap(Heap(player, w2.lobby, lobbies))

\* A game timer fires: its callback runs on the Lobby object it closed over.
\* An exception it throws is uncaught and ends the process.
TimerFire(t, order) ==
    /\ Running
    /\ now' = now
    /\ calc' = calc
    /\ t \in timers
    /\ LET w0 == World(lobby, timers \ {t}, finished)
           w1 == CASE t.cb = "mmFinishGame" -> mmFinishGame(w0, t.lid)
                   [] t.cb = "queensFinishGame" -> queensFinishGame(w0, t.lid)
                   [] t.cb = "finishWordSubmission" -> finishWordSubmission(w0, t.lid)
                   [] t.cb = "finishDrawing" -> finishDrawing(w0, t.lid, order)
                   [] OTHER -> nextDrawing(w0, t.lid)
       IN  /\ SetWorld(w1)
           /\ halted' = IF w1.threw THEN "crashed" ELSE halted
           /\ ack' = "none"
           /\ reply' = NoReply
           /\ UNCHANGED <<nextSock, connected, playersBySocket, graceTimers, dealers,
                          nextRound, removals>>
           /\ SetHeap(Heap(player, w1.lobby, lobbies))

\* startDealing resumes after a delay.  What it throws rejects a promise nobody
\* handles: the runtime ends the process or only reports it (exits).
DealerStep(d, exits) ==
    /\ Running
    /\ now' = now
    /\ calc' = calc
    /\ d \in dealers
    /\ LET r == dealStep(World(lobby, timers, finished), d)
       IN  /\ dealers' = (dealers \ {d}) \cup
                            (IF r.pc = "done" THEN {}
                             ELSE {[d EXCEPT !.pc = r.pc, !.dealt = r.dealt]})
           /\ SetWorld(r.w)
           /\ halted' = IF r.w.threw /\ exits THEN "crashed" ELSE halted
           /\ ack' = "none"
           /\ reply' = NoReply
           /\ UNCHANGED <<nextSock, connected, playersBySocket, graceTimers,
                          nextRound, removals>>
           /\ SetHeap(Heap(player, r.w.lobby, lobbies))

\* Time passes between two events.
Tick ==
    /\ Running
    /\ now < Epoch + MaxTicks * Quantum
    /\ now' = now + Quantum
    /\ calc' = calc
    /\ ack' = "none"
    /\ emits' = <<>>
    /\ reply' = NoReply
    /\ UNCHANGED <<nextSock, connected, playersBySocket, player, lobby, lobbies,
                   graceTimers, timers, dealers, nextRound, finished, halted, removals>>

\* ------------------------------------------------------- specifications
\* The connections that are up and have no player.
Idle == Cardinality({s \in connected : playersBySocket[s] = NoPlayer})

\* The requests of the connection layer, with at most maxS connections, maxP
\* Player objects and maxL Lobby objects; the connections up to `movers` may
\* leave, drop and reconnect.
ConnectionStep(maxS, maxP, maxL, movers) ==
    \/ nextSock <= maxS /\ Idle < MaxIdle /\ Connect
    \/ \E s \in Sockets : \E u \in Usernames(s) :
          Len(player) < maxP /\ Len(lobby) < maxL /\ LobbyCreate(s, u)
    \/ \E s \in Sockets : \E u \in Usernames(s) : \E c \in CodeInputs :
          Len(player) < maxP /\ LobbyJoin(s, u, c)
    \/ \E s \in Sockets : s <= movers /\ LobbyLeave(s)
    \/ \E s \in Sockets : s <= movers /\ Disconnect(s)
    \/ \E t \in graceTimers : GraceExpire(t)
    \/ \E s \in Sockets : \E p \in 0..Len(player) : \E c \in ReconnectCodes :
          s <= movers /\ p <= movers /\ PlayerReconnect(s, p, c)

\* The orders a shuffle of the players of Lobby object lid can return.
ShufflesOf(lid) == IF lid = NoLobby THEN {<<>>} ELSE Shuffles(lobby[lid].players)

\* game:start and game:end for the games of `games`, with at most maxR round
\* states, and the phase timers.
RoundStep(games, maxR) ==
    \/ \E s \in Sockets : \E g \in games : \E puzzle \in BOOLEAN :
          nextRound <= maxR /\ GameStart(s, g, puzzle)
    \/ \E s \in Sockets : GameEnd(s)
    \/ \E t \in timers : \E order \in ShufflesOf(t.lid) : TimerFire(t, order)

\* The data of a vote, and the number of votes recorded in all the rounds.
Votes == [drawingOwnerId : 1..Len(player), voteType : {"up", "sideways"}]

Voted == LET RECURSIVE Sum(_)
             Sum(l) == IF l = 0 THEN 0 ELSE lobby[l].gameState.votes + Sum(l - 1)
         IN  Sum(Len(lobby))

\* The game:action requests of the clients of each game.
QueensStep ==
    \E s \in Sockets : \E q \in Placements : GameAction(s, "submit-solution", q, <<>>)

MadnessStep ==
    \E s \in Sockets : GameAction(s, "submit-score", "", <<>>)

DrawingStep ==
    \/ \E s \in Sockets : \E word \in {"", "word"} :
          GameAction(s, "submit-word", word, <<>>)
    \/ \E s \in Sockets : \E order \in ShufflesOf(LobbyOf(playersBySocket[s])) :
          GameAction(s, "submit-drawing", "", order)
    \/ \E s \in Sockets : \E v \in Votes :
          Voted < MaxVotes /\ GameAction(s, "vote", v, <<>>)

\* The continuations of startDealing.
PokerStep ==
    \E d \in dealers : \E exits \in BOOLEAN : DealerStep(d, exits)

\* The connection layer alone: no round is started.
NextLobby == ConnectionStep(LobbySockets, LobbyPlayers, LobbyLobbies, LobbySockets)

SpecLobby == Init /\ [][NextLobby]_vars

\* One lobby filled to its capacity: the first connections come and go, the
\* others join.
NextCapacity == ConnectionStep(CapSockets, CapPlayers, CapLobbies, CapMovers)

SpecCapacity == Init /\ [][NextCapacity]_vars

\* Lobbies are created until every code of the alphabet is in use.
NextCodes == ConnectionStep(CodeSockets, CodePlayers, CodeLobbies, CodeMovers)

SpecCodes == Init /\ [][NextCodes]_vars

\* A lobby in a round, and a connection asking to be admitted.
NextAdmission ==
    \/ ConnectionStep(AdmSockets, AdmPlayers, AdmLobbies, AdmMovers)
    \/ RoundStep({"multiply-madness"}, AdmRounds)
    \/ MadnessStep

SpecAdmission == Init /\ [][NextAdmission]_vars

\* Rounds of the two games that finish on a timeout or on the last
\* submission, one started after the other.
NextRace ==
    \/ ConnectionStep(MaxSockets, MaxPlayers, MaxLobbies, MaxSockets)
    \/ RoundStep({"queens", "multiply-madness"}, RaceRounds)
    \/ QueensStep
    \/ MadnessStep

SpecRace == Init /\ [][NextRace]_vars

\* A round of queens or multiply-madness while the clock advances and players
\* drop and come back.
NextResume ==
    \/ ConnectionStep(MaxSockets, MaxPlayers, MaxLobbies, MaxSockets)
    \/ RoundStep({"queens", "multiply-madness"}, MaxRounds)
    \/ QueensStep
    \/ MadnessStep
    \/ Tick

SpecResume == Init /\ [][NextResume]_vars

\* The whole server, one round of any registered game.
Next ==
    \/ ConnectionStep(MaxSockets, MaxPlayers, MaxLobbies, MaxSockets)
    \/ RoundStep(GameIds, MaxRounds)
    \/ QueensStep
    \/ MadnessStep
    \/ DrawingStep
    \/ PokerStep

Spec == Init /\ [][Next]_vars

\* ------------------------------------------------------------ properties
\* The members of Lobby object l, and the Lobby objects of the registry.
Members(l) == Range(lobby[l].players)

Registered == {lobbies[c] : c \in Codes} \ {NoLobby}

\* The member of l, other than p, that joined first.
FirstOther(l, p) ==
    LET idx == {i \in DOMAIN lobby[l].players : lobby[l].players[i] # p}
    IN  lobby[l].players[CHOOSE i \in idx : \A j \in idx : i <= j]

\* The pending grace timers of player p, and the connections bound to p.
TimersOf(p) == {t \in graceTimers : t.pid = p}

BoundTo(p) == {s \in DOMAIN playersBySocket : playersBySocket[s] = p}

\* The names of the events of the last step.
Emitted == {emits[i].ev : i \in DOMAIN emits}

\* The error texts of Lobby.addPlayer.
LobbyFull == "Lobby is full (max 8 players)"

InProgress == "Cannot join while a game is in progress"

\* A step of lobby:join that got as far as constructing the Player.
JoinStep == Len(player') = Len(player) + 1 /\ Len(lobby') = Len(lobby)

RemovedOnce ==
    \A p \in DOMAIN player :
        /\ removals[p].leave + removals[p].grace <= 1
        /\ removals[p].left = removals[p].leave + removals[p].grace

\* Both paths have run, each for its own player: one was removed by its grace
\* timer, the other by an explicit leave.
RemovedOnceWitness ==
    \E p, q \in DOMAIN player :
        /\ removals[p] = [leave |-> 0, grace |-> 1, left |-> 1]
        /\ removals[q] = [leave |-> 1, grace |-> 0, left |-> 1]

\* C4: when a disconnected player whose grace timer is pending reconnects, the
\* timer is cancelled (none is left that could remove the player), the player
\* is still a member under the same id with disconnected = false, and the
\* directory binds it to the new connection only.
ReconnectCancelsEviction ==
    [][\A p \in DOMAIN player : \A l \in Registered :
          (/\ p \in Members(l)
           /\ player[p].disconnected
           /\ TimersOf(p) # {}
           /\ emits' = <<Ev("lobby:player-reconnected", lobby[l].code, p)>>)
          => /\ TimersOf(p)' = {}
             /\ p \in Members(l)'
             /\ lobbies' = lobbies
             /\ ~player'[p].disconnected
             /\ removals'[p] = removals[p]
             /\ \E s \in connected :
                   /\ playersBySocket[s] # p
                   /\ BoundTo(p)' = {s}
                   /\ player'[p].socketId = s]_vars

\* The only player ever created is back on a second connection, the first
\* one being down.
ReconnectWitness ==
    /\ Len(player) = 1
    /\ emits = <<Ev("lobby:player-reconnected", player[1].lobbyCode, 1)>>
    /\ connected = {player[1].socketId}
    /\ player[1].socketId # 1
    /\ graceTimers = {}
    /\ \E l \in Registered : lobby[l].players = <<1>>

\* C5: the disconnect of a member's connection (the connection whose id is
\* the player's socketId) does not evict it: right after, the member list and
\* the host of its lobby are what they were, the player is marked
\* disconnected, no connection is bound to it and exactly one grace timer is
\* pending for it; a disconnected member leaves the member list only in a step
\* in which its grace timer fires.
DisconnectKeepsSeat ==
    [][\A l \in Registered :
          /\ \A s \in connected : \A p \in Members(l) :
                (player[p].socketId = s /\ s \notin connected')
                => /\ lobby'[l].players = lobby[l].players
                   /\ lobby'[l].hostId = lobby[l].hostId
                   /\ lobbies' = lobbies
                   /\ player'[p].disconnected
                   /\ BoundTo(p)' = {}
                   /\ Cardinality(TimersOf(p)') = 1
          /\ \A q \in Members(l) :
                (player[q].disconnected /\ q \notin Members(l)')
                   => /\ TimersOf(q) # {}
                      /\ TimersOf(q)' = {}
                      /\ removals'[q].grace = removals[q].grace + 1]_vars

\* C6: the hostId of every registered lobby that has a member is the id of
\* one of its members.
HostIsMember ==
    \A l \in Registered : lobby[l].players # <<>> => lobby[l].hostId \in Members(l)

\* A lobby whose host was just replaced, the new host being a member.
HostIsMemberWitness ==
    \E l \in Registered :
        /\ Len(emits) = 2
        /\ emits[1] = Ev("lobby:host-changed", lobby[l].code, lobby[l].hostId)
        /\ lobby[l].hostId \in Members(l)

\* C7: when a member is removed from a lobby: if it was the host and members
\* remain, the host becomes the remaining member that joined first and the
\* promotion is handed to the caller (which announces it); if it was not the
\* host, hostId is unchanged and no promotion is announced.
PromotionOrder ==
    [][\A l \in DOMAIN lobby : \A p \in Members(l) :
          p \notin Members(l)' =>
             IF p # lobby[l].hostId
                 THEN /\ lobby'[l].hostId = lobby[l].hostId
                      /\ "lobby:host-changed" \notin Emitted'
             ELSE IF Members(l) # {p}
                 THEN /\ lobby'[l].hostId = FirstOther(l, p)
                      /\ player'[FirstOther(l, p)].isHost
                      /\ emits'[1] = Ev("lobby:host-changed", lobby[l].code,
                                        FirstOther(l, p))
             ELSE "lobby:host-changed" \notin Emitted']_vars

\* The host of a lobby of three was removed: the second to join is the host
\* of the two who remain.
PromotionWitness ==
    \E l \in Registered :
        /\ lobby[l].players = <<2, 3>>
        /\ lobby[l].hostId = 2
        /\ player[2].isHost
        /\ emits = <<Ev("lobby:host-changed", lobby[l].code, 2),
                     Ev("lobby:player-left", lobby[l].code, 1)>>

\* C8: every lobby of the registry has a member; in the step that removes the
\* last member of a lobby its code leaves the registry, and the generator can
\* issue that code again.  (The witness is the reuse: a second Lobby object
\* registered under the code of the destroyed first one.)
DestroyedWhenEmpty ==
    /\ [](\A l \in Registered : lobby[l].players # <<>>)
    /\ [][\A l \in DOMAIN lobby :
            (Members(l) # {} /\ Members(l)' = {})
               => /\ lobbies'[lobby[l].code] = NoLobby
                  /\ l \notin Registered'
                  /\ lobby[l].code \in generateUniqueLobbyCode(
                                         {c \in Codes : lobbies'[c] # NoLobby})]_vars

CodeReusedWitness ==
    /\ Len(lobby) = 2
    /\ lobby[1].players = <<>>
    /\ lobby[2].players # <<>>
    /\ lobby[2].code = lobby[1].code
    /\ lobbies[lobby[2].code] = 2

\* C9: no lobby ever has more than 8 members; a lobby with 8 members gains
\* none, and a join that reaches addPlayer on it is answered with the
\* lobby-full error and leaves every member list as it was.
CapacityKept ==
    /\ [](\A l \in DOMAIN lobby : Len(lobby[l].players) <= MAX_LOBBY_PLAYERS)
    /\ [][\A l \in Registered :
            Len(lobby[l].players) = MAX_LOBBY_PLAYERS
               => /\ Members(l)' \subseteq Members(l)
                  /\ (JoinStep /\ Registered = {l})
                        => /\ ack' = LobbyFull
                           /\ lobby'[l].players = lobby[l].players]_vars

\* A ninth player was just turned away from a lobby of eight.
CapacityWitness ==
    /\ ack = LobbyFull
    /\ Len(player) = MAX_LOBBY_PLAYERS + 1
    /\ \E l \in Registered : Len(lobby[l].players) = MAX_LOBBY_PLAYERS

\* C10: while currentGame of a lobby is set, its member set only stays or
\* shrinks from one step to the next, and a join that reaches addPlayer on it
\* is answered with the round-in-progress error.
NoAdmissionInRound ==
    [][\A l \in DOMAIN lobby :
          lobby[l].currentGame # NoGame
             => /\ Members(l)' \subseteq Members(l)
                /\ (JoinStep /\ Registered = {l}) => ack' = InProgress]_vars

\* A third player was just turned away from a lobby of two that is in a round.
AdmissionWitness ==
    /\ ack = InProgress
    /\ Len(player) = 3
    /\ \E l \in Registered :
          /\ lobby[l].currentGame # NoGame
          /\ lobby[l].gameState.phase = "playing"
          /\ lobby[l].players = <<1, 2>>

\* The errors lobby:join acknowledges.
JoinErrors ==
    {"Username is required", "Username must be at least 4 characters",
     "Username must be 20 characters or less",
     "Username can only contain letters, numbers, and underscores",
     "Invalid lobby code", "Lobby not found",
     "Username already taken in this lobby", LobbyFull, InProgress}

\* C11: a lobby:join that is acknowledged with an error leaves the registry,
\* the member list of every Lobby and the playersBySocket directory as they
\* were.
RejectedJoinMutatesNothing ==
    [][(JoinStep /\ ack' \in JoinErrors)
          => /\ lobbies' = lobbies
             /\ \A l \in DOMAIN lobby : lobby'[l].players = lobby[l].players
             /\ playersBySocket' = playersBySocket]_vars

\* The error of a queens initGame whose generatePuzzle gave up.
InitFailed == "Failed to generate a valid Queens puzzle"

\* C12: when game:start is acknowledged with the error of a failed initGame,
\* the lobby it worked on is outside any round afterwards: currentGame is
\* unset and gameState is null.
FailedInitLeavesNoRound ==
    [][ack' = InitFailed
          => \A l \in DOMAIN lobby :
                lobby'[l] # lobby[l]
                   => /\ lobby'[l].currentGame = NoGame
                      /\ lobby'[l].gameState = NullState]_vars

\* C13: a successful game:end leaves no continuation of the round it ended:
\* no phase timer and no suspended dealing of that round is pending afterwards
\* (a pending one would run on the lobby later).
EndCancelsContinuations ==
    [][\A l \in DOMAIN lobby :
          (/\ "game:ended" \in Emitted'
           /\ ack' = "success"
           /\ lobby[l].currentGame # NoGame
           /\ lobby'[l].currentGame = NoGame)
          => /\ \A t \in timers' : ~(t.lid = l /\ t.rid = lobby[l].gameState.rid)
             /\ \A d \in dealers' : ~(d.lid = l /\ d.rid = lobby[l].gameState.rid)]_vars

\* C14: a phase timer created for round R of a lobby, firing when the lobby's
\* round state is no longer R's (a later round replaced it), changes nothing
\* of the lobby's round state and emits nothing.
StaleTimerActsNot ==
    [][\A t \in timers :
          (/\ t \notin timers'
           /\ ack' = "none"
           /\ lobby[t.lid].gameState.rid \notin {0, t.rid})
          => /\ lobby'[t.lid].gameState = lobby[t.lid].gameState
             /\ emits' = <<>>]_vars

\* C15: when a phase timer or a dealing step of the round that is active in
\* its lobby runs, it throws nothing (the process keeps running) and it does
\* not leave the round in 'results' without its results.
CallbacksComplete ==
    [][\A l \in DOMAIN lobby :
          (/\ ack' = "none"
           /\ lobby[l].gameState.rid # 0
           /\ \/ \E t \in timers \ timers' :
                    t.lid = l /\ t.rid = lobby[l].gameState.rid
              \/ \E d \in dealers \ dealers' :
                    d.lid = l /\ d.rid = lobby[l].gameState.rid)
          => /\ halted' = "no"
             /\ lobby'[l].gameState.phase = "results" => lobby'[l].gameState.results]_vars

\* C16: the reply to a player:reconnect that arrives while a round is active
\* in the player's lobby carries a gameState that names the game and the
\* round's current phase, whichever registered game is played.
ReconnectHasPhase ==
    \A l \in Registered :
       (/\ reply.player # NoPlayer
        /\ reply.lobby = lobby[l].code
        /\ lobby[l].currentGame # NoGame
        /\ lobby[l].gameState.rid # 0)
       => /\ reply.gameState.gameId = lobby[l].currentGame
          /\ reply.gameState.phase = lobby[l].gameState.phase

SnapshotHidesSolution ==
    \A l \in Registered :
       (/\ reply.player # NoPlayer
        /\ reply.lobby = lobby[l].code
        /\ lobby[l].currentGame = "queens"
        /\ lobby[l].gameState.phase = "playing")
       => LET gs == lobby[l].gameState IN
          /\ \A s \in Placements :
                reply.gameState =
                   queensReconnectState([gs EXCEPT !.solution = s], reply.player,
                                        Snapshot("queens"))
          /\ reply.gameState.solved = (reply.player \in gs.solved)
          /\ reply.gameState.solvedPlayers = gs.solved

SnapshotWitness ==
    \E l \in Registered :
       /\ reply.player # NoPlayer
       /\ reply.lobby = lobby[l].code
       /\ lobby[l].currentGame = "queens"
       /\ lobby[l].gameState.phase = "playing"
       /\ lobby[l].gameState.solved # {}
       /\ reply.gameState.solved = FALSE
       /\ reply.gameState.solvedPlayers = lobby[l].gameState.solved

\* The gameplay actions, what a client may send with each, and the phase in
\* which a game takes each.
Actions == {"submit-solution", "submit-score", "submit-word", "submit-drawing", "vote"}

ActionData(action) ==
    CASE action = "vote" -> Votes
      [] action = "submit-solution" -> Placements
      [] OTHER -> {"", "word"}

ValidPhase(game, action) ==
    CASE game = "queens" /\ action = "submit-solution" -> "playing"
      [] game = "multiply-madness" /\ action = "submit-score" -> "playing"
      [] game = "drawing-game" /\ action = "submit-word" -> "word-submission"
      [] game = "drawing-game" /\ action = "submit-drawing" -> "drawing"
      [] game = "drawing-game" /\ action = "vote" -> "viewing"
      [] OTHER -> "never"

PhaseErrors ==
    {"Game is not in playing phase", "Not in word submission phase",
     "Not in drawing phase", "Not in viewing phase",
     "No actions available in Dead Draw Poker", "Unknown action"}

\* C19: an action that the lobby's game does not take in the phase its round
\* is in (any action once the round is in 'results') is answered with an
\* error and changes neither the round state, nor the timers, nor the record
\* of results, and emits nothing.
OutOfPhaseRejected ==
    \A l \in Registered : \A pid \in Members(l) : \A a \in Actions :
       \A d \in ActionData(a) : \A order \in ShufflesOf(l) :
          (/\ lobby[l].currentGame # NoGame
           /\ lobby[l].gameState.phase # ValidPhase(lobby[l].currentGame, a))
          => LET r == handleAction(l, pid, a, d, order) IN
             /\ r.w = World(lobby, timers, finished)
             /\ r.ack \in PhaseErrors

OutOfPhaseWitness ==
    \E l \in Registered : \E s \in connected : \E v \in Votes :
       /\ playersBySocket[s] \in Members(l)
       /\ lobby[l].currentGame = "drawing-game"
       /\ lobby[l].gameState.phase = "results"
       /\ lobby[l].gameState.votes > 0
       /\ handleAction(l, playersBySocket[s], "vote", v, <<>>).ack = "Not in viewing phase"

\* C20: a game:start sent by a member who is not the host, or in a lobby of
\* fewer than 2 members, and a game:end sent by a member who is not the host,
\* change nothing; a step that builds a round in a lobby, or announces the end
\* of its round, finds the lobby's host connected (and, for a start, at least
\* 2 members).
StartEndGuarded ==
    [][/\ \A s \in connected : \A l \in Registered :
             (playersBySocket[s] # NoPlayer /\ LobbyOf(playersBySocket[s]) = l)
             => /\ (\/ lobby[l].hostId # playersBySocket[s]
                    \/ Len(lobby[l].players) < MIN_START_PLAYERS)
                   => \A g \in GameIds : \A puzzle \in BOOLEAN :
                         GameStart(s, g, puzzle) => UNCHANGED vars
                /\ lobby[l].hostId # playersBySocket[s]
                   => (GameEnd(s) => UNCHANGED vars)
       /\ \A l \in DOMAIN lobby :
             (\/ lobby'[l].gameState.rid \notin {0, lobby[l].gameState.rid}
              \/ lobby'[l].currentGame \notin {NoGame, lobby[l].currentGame}
              \/ \E i \in DOMAIN emits' :
                    emits'[i].ev = "game:ended" /\ emits'[i].to = lobby[l].code
                       /\ l \in Registered)
             => /\ \E s \in connected : playersBySocket[s] = lobby[l].hostId
                /\ lobby'[l].currentGame # NoGame
                      => Len(lobby[l].players) >= MIN_START_PLAYERS]_vars

StartEndWitness ==
    \E l \in Registered : \E s \in connected :
       /\ playersBySocket[s] \in Members(l) \ {lobby[l].hostId}
       /\ LobbyOf(playersBySocket[s]) = l
       /\ lobby[l].currentGame # NoGame
       /\ \E t \in timers : t.lid = l /\ t.rid = lobby[l].gameState.rid

\* C21: a submit-score by a player whose score the multiply-madness round
\* already holds, and a vote by the one voter of a two-member lobby who has
\* already voted on the drawing shown, are answered with an error and change
\* nothing.
DuplicateRejected ==
    \A l \in Registered : \A pid \in Members(l) :
       LET gs == lobby[l].gameState IN
       /\ (lobby[l].currentGame = "multiply-madness" /\ gs.phase = "playing"
              /\ pid \in gs.submitted)
          => LET r == handleAction(l, pid, "submit-score", "", <<>>) IN
             r.ack # "success" /\ r.w = World(lobby, timers, finished)
       /\ (lobby[l].currentGame = "drawing-game" /\ gs.phase = "viewing"
              /\ Len(lobby[l].players) = 2 /\ gs.viewIdx = 0 /\ gs.votes = 1
              /\ gs.viewingOrder[1] # pid)
          => LET r == handleAction(l, pid, "vote",
                                   [drawingOwnerId |-> gs.viewingOrder[1],
                                    voteType |-> "up"], <<>>) IN
             r.ack # "success" /\ r.w = World(lobby, timers, finished)

EndGameIdempotent ==
    [][\A l \in DOMAIN lobby :
          LET e == endGame(l, lobby) IN
          /\ e[l].currentGame = NoGame
          /\ e[l].gameState = NullState
          /\ endGame(l, e) = e
          /\ e[l].players = lobby[l].players
          /\ e[l].hostId = lobby[l].hostId
          /\ e[l].code = lobby[l].code
          /\ \A k \in DOMAIN lobby : k # l => e[k] = lobby[k]
          /\ (l \in Registered /\ ack' = "success"
                /\ \E i \in DOMAIN emits' :
                      emits'[i].ev = "game:ended" /\ emits'[i].to = lobby[l].code)
             => lobby' = e]_vars

EndGameWitness ==
    \E l \in Registered :
       /\ "game:ended" \in Emitted
       /\ ack = "success"
       /\ nextRound > 1
       /\ lobby[l].currentGame = NoGame
       /\ lobby[l].gameState = NullState
       /\ Len(lobby[l].players) >= 2

\* C24: the code of a lobby that is created is a code of the alphabet that no
\* live lobby has at that moment; no two live lobbies share a code, the
\* registry files each lobby under its own code, and a lookup by a code, in
\* either case, finds the one lobby of that code or none.
CodesUnique ==
    [][/\ \A l1 \in Registered : \A l2 \in Registered :
             lobby[l1].code = lobby[l2].code => l1 = l2
       /\ \A c \in Codes : lobbies[c] # NoLobby => lobby[lobbies[c]].code = c
       /\ \A x \in CodeInputs \cup ReconnectCodes :
             findByCode(x) # NoLobby
                => /\ findByCode(x) \in Registered
                   /\ lobby[findByCode(x)].code = ToUpperCase(x)
       /\ Len(lobby') = Len(lobby) + 1
             => /\ lobby'[Len(lobby')].code \in Codes
                /\ lobbies[lobby'[Len(lobby')].code] = NoLobby
                /\ \A l \in Registered : lobby[l].code # lobby'[Len(lobby')].code]_vars

CodesUniqueWitness ==
    /\ Cardinality(Registered) = 2
    /\ \E l1 \in Registered : \E l2 \in Registered : lobby[l1].code # lobby[l2].code

\* C25: generateUniqueLobbyCode returns or fails, also when every code of the
\* alphabet exists: no lobby:create leaves the server in its loop.
GeneratorTerminates == halted # "hung"

\* ------------------------------------------- queens: generator and verifier
GRID_SIZE == 6

\* The row and the column indices of the grid.
Cells == 0..(GRID_SIZE - 1)

Abs(x) == IF x < 0 THEN -x ELSE x

\* An array of GRID_SIZE entries -1, and the grid generateRegions gives up with.
NoCols == [r \in Cells |-> -1]
NoGrid == <<>>

\* isValid(row, col) of placeQueens, against the columns of the rows before.
placeValid(cols, row, col) ==
    \A r \in 0..(row - 1) :
        /\ cols[r] # col
        /\ ~(Abs(r - row) <= 1 /\ Abs(cols[r] - col) <= 1)

\* solve(row) of placeQueens: the arrays the search can end with, over the
\* orders the shuffle can produce.
RECURSIVE placeFrom(_, _)
placeFrom(cols, row) ==
    IF row = GRID_SIZE THEN {cols}
    ELSE UNION {placeFrom([cols EXCEPT ![row] = col], row + 1) :
                    col \in {c \in Cells : placeValid(cols, row, c)}}

\* placeQueens(): what a call can return.
placeQueens == placeFrom(NoCols, 0)

dirs == <<<<0, 1>>, <<0, -1>>, <<1, 0>>, <<-1, 0>>>>

\* The loop over dirs for the cell (r, c) of a region's queue, from the d-th
\* direction on: g holds the grid and the region's next queue.
RECURSIVE growCell(_, _, _, _, _)
growCell(g, region, r, c, d) ==
    IF d > Len(dirs) THEN g
    ELSE LET nr == r + dirs[d][1]
             nc == c + dirs[d][2]
         IN  IF nr >= 0 /\ nr < GRID_SIZE /\ nc >= 0 /\ nc < GRID_SIZE /\ g.grid[nr][nc] = -1
                 THEN growCell([grid |-> [g.grid EXCEPT ![nr][nc] = region],
                                next |-> Append(g.next, <<nr, nc>>)],
                               region, r, c, d + 1)
             ELSE growCell(g, region, r, c, d + 1)

\* The loop over the cells of a region's queue, from the i-th on.
RECURSIVE growQueue(_, _, _, _)
growQueue(g, region, queue, i) ==
    IF i > Len(queue) THEN g
    ELSE growQueue(growCell(g, region, queue[i][1], queue[i][2], 1), region, queue, i + 1)

\* The loop over the regions, from `region` on: one round of growth.
RECURSIVE growRound(_, _)
growRound(st, region) ==
    IF region = GRID_SIZE THEN st
    ELSE IF st.queues[region] = <<>> THEN growRound(st, region + 1)
    ELSE LET g == growQueue([grid |-> st.grid, next |-> <<>>], region, st.queues[region], 1)
         IN  growRound([grid |-> g.grid,
                        queues |-> [st.queues EXCEPT ![region] = g.next],
                        anyGrew |-> st.anyGrew \/ g.next # <<>>],
                       region + 1)

\* totalAssigned: the cells that have a region.
totalAssigned(grid) ==
    Cardinality({rc \in Cells \X Cells : grid[rc[1]][rc[2]] # -1})

\* The while loop of generateRegions.
RECURSIVE growAll(_, _)
growAll(grid, queues) ==
    IF totalAssigned(grid) >= GRID_SIZE * GRID_SIZE THEN grid
    ELSE LET st == growRound([grid |-> grid, queues |-> queues, anyGrew |-> FALSE], 0)
         IN  IF ~st.anyGrew /\ totalAssigned(st.grid) < GRID_SIZE * GRID_SIZE
                 THEN NoGrid
             ELSE growAll(st.grid, st.queues)

\* generateRegions(queenCols): region r is seeded at the marker of row r.
generateRegions(queenCols) ==
    growAll([r \in Cells |-> [c \in Cells |-> IF queenCols[r] = c THEN r ELSE -1]],
            [r \in Cells |-> <<<<r, queenCols[r]>>>>])

\* regionsAreEqual(grid): every region id that occurs has (n * n) / n cells.
regionsAreEqual(grid) ==
    \A id \in {grid[rc[1]][rc[2]] : rc \in Cells \X Cells} :
        Cardinality({rc \in Cells \X Cells : grid[rc[1]][rc[2]] = id})
            = (GRID_SIZE * GRID_SIZE) \div GRID_SIZE

\* An isValid of countSolutions without the test of the regions.
countValidAnyRegion(grid, cols, row, col) ==
    \A r \in 0..(row - 1) :
        /\ cols[r] # col
        /\ ~(Abs(r - row) <= 1 /\ Abs(cols[r] - col) <= 1)

\* isValid(row, col) of countSolutions.
countValid(grid, cols, row, col) ==
    \A r \in 0..(row - 1) :
        /\ cols[r] # col
        /\ ~(Abs(r - row) <= 1 /\ Abs(cols[r] - col) <= 1)
        /\ grid[r][cols[r]] # grid[row][col]

\* solve(row) of countSolutions, and its loop over the columns from col on;
\* the value is the count afterwards.
RECURSIVE countFrom(_, _, _, _)
RECURSIVE countCols(_, _, _, _, _)
countFrom(grid, cols, row, count) ==
    IF row = GRID_SIZE THEN count + 1
    ELSE IF count > 1 THEN count
    ELSE countCols(grid, cols, row, 0, count)

countCols(grid, cols, row, col, count) ==
    IF col = GRID_SIZE THEN count
    ELSE IF countValid(grid, cols, row, col)
        THEN LET k == countFrom(grid, [cols EXCEPT ![row] = col], row + 1, count)
             IN  IF k > 1 THEN k ELSE countCols(grid, cols, row, col + 1, k)
    ELSE countCols(grid, cols, row, col + 1, count)

countSolutions(grid) == countFrom(grid, NoCols, 0, 0)

\* A verifier without the test of one marker per region.
validateSolutionAnyRegion(grid, queens) ==
    LET n == GRID_SIZE
        Q == DOMAIN queens
    IN  IF Len(queens) # n THEN FALSE
        ELSE IF \E i \in Q : queens[i].row < 0 \/ queens[i].row >= n
                             \/ queens[i].col < 0 \/ queens[i].col >= n THEN FALSE
        ELSE IF Cardinality({queens[i].row : i \in Q}) # n THEN FALSE
        ELSE IF Cardinality({queens[i].col : i \in Q}) # n THEN FALSE
        ELSE IF \E i \in Q : \E j \in Q :
                    /\ i < j
                    /\ Abs(queens[i].row - queens[j].row) <= 1
                    /\ Abs(queens[i].col - queens[j].col) <= 1 THEN FALSE
        ELSE TRUE

\* validateSolution(grid, queens): queens is an array of {row, col}.
validateSolution(grid, queens) ==
    LET n == GRID_SIZE
        Q == DOMAIN queens
    IN  IF Len(queens) # n THEN FALSE
        ELSE IF \E i \in Q : queens[i].row < 0 \/ queens[i].row >= n
                             \/ queens[i].col < 0 \/ queens[i].col >= n THEN FALSE
        ELSE IF Cardinality({queens[i].row : i \in Q}) # n THEN FALSE
        ELSE IF Cardinality({queens[i].col : i \in Q}) # n THEN FALSE
        ELSE IF Cardinality({grid[queens[i].row][queens[i].col] : i \in Q}) # n THEN FALSE
        ELSE IF \E i \in Q : \E j \in Q :
                    /\ i < j
                    /\ Abs(queens[i].row - queens[j].row) <= 1
                    /\ Abs(queens[i].col - queens[j].col) <= 1 THEN FALSE
        ELSE TRUE

maxAttempts == 100

\* The region grid of every placement placeQueens can return.
Regions == [q \in placeQueens |-> generateRegions(q)]

\* The tests of one attempt of generatePuzzle on the placement queenCols:
\* a grid was grown, its regions are equal, it has one solution.
attemptPasses(queenCols) ==
    /\ Regions[queenCols] # NoGrid
    /\ regionsAreEqual(Regions[queenCols])
    /\ countSolutions(Regions[queenCols]) = 1

\* The placements with which an attempt returns a puzzle.
Puzzles == {q \in placeQueens : attemptPasses(q)}

\* The state of the server, which a call of a pure function leaves alone.
server == <<nextSock, connected, playersBySocket, player, lobby, lobbies,
            graceTimers, timers, dealers, nextRound, finished, halted, ack,
            emits, removals, now, reply>>

\* A generatePuzzle whose loop has no bound on its attempts.
generatePuzzleUnbounded ==
    /\ Running
    /\ UNCHANGED server
    /\ IF calc.op = "none"
           THEN calc' = [op |-> "generatePuzzle", attempt |-> 0, outcome |-> "trying",
                         solution |-> NoCols, grid |-> NoGrid]
       ELSE /\ calc.op = "generatePuzzle"
            /\ calc.outcome = "trying"
            /\ \E queenCols \in placeQueens :
                   calc' = [calc EXCEPT !.attempt = @ + 1,
                                        !.outcome = IF attemptPasses(queenCols)
                                                        THEN "returned" ELSE "trying",
                                        !.solution = queenCols,
                                        !.grid = Regions[queenCols]]

\* generatePuzzle(), one pass of its loop at a time: the call begins, then
\* each attempt draws a placement and returns { grid, solution } if the
\* attempt passes and goes on if not; after maxAttempts attempts it throws.
generatePuzzle ==
    /\ Running
    /\ UNCHANGED server
    /\ IF calc.op = "none"
           THEN calc' = [op |-> "generatePuzzle", attempt |-> 0, outcome |-> "trying",
                         solution |-> NoCols, grid |-> NoGrid]
       ELSE /\ calc.op = "generatePuzzle"
            /\ calc.outcome = "trying"
            /\ IF calc.attempt >= maxAttempts
                   THEN calc' = [calc EXCEPT !.outcome = "failed",
                                             !.solution = NoCols, !.grid = NoGrid]
               ELSE \E queenCols \in placeQueens :
                       calc' = [calc EXCEPT !.attempt = @ + 1,
                                            !.outcome = IF attemptPasses(queenCols)
                                                            THEN "returned" ELSE "trying",
                                            !.solution = queenCols,
                                            !.grid = Regions[queenCols]]

\* The number of placements whose grids the verifier is applied to.
MaxSamples == 2

\* p comes before q in the order of the arrays, entry by entry.
before(p, q) ==
    \E r \in Cells : p[r] < q[r] /\ \A k \in 0..(r - 1) : p[k] = q[k]

\* The first MaxSamples placements of placeQueens in that order.
SampleQueens ==
    {q \in placeQueens : Cardinality({p \in placeQueens : before(p, q)}) < MaxSamples}

\* The array of {row, col} a client sends for one marker per row.
Markers(cols) == [i \in 1..GRID_SIZE |-> [row |-> i - 1, col |-> cols[i - 1]]]

\* The arrays submitted on the grid grown from q: one marker per row in every
\* choice of columns, and q's markers reversed, with a marker less or more,
\* with a marker out of bounds, and with two markers in one row.
Submissions(q) ==
    LET A == Markers(q)
    IN  {Markers(f) : f \in [Cells -> Cells]}
            \cup {[i \in 1..GRID_SIZE |-> A[GRID_SIZE + 1 - i]],
                  <<>>,
                  SubSeq(A, 1, GRID_SIZE - 1),
                  Append(A, A[1]),
                  [A EXCEPT ![1].row = -1],
                  [A EXCEPT ![GRID_SIZE].row = GRID_SIZE],
                  [A EXCEPT ![1].col = -1],
                  [A EXCEPT ![GRID_SIZE].col = GRID_SIZE],
                  [A EXCEPT ![2].row = A[1].row]}

\* A submission is verified: validateSolution is applied to a grid and an array.
Validate ==
    /\ Running
    /\ calc.op = "none"
    /\ UNCHANGED server
    /\ \E q \in SampleQueens : \E queens \in Submissions(q) :
          calc' = [op |-> "validateSolution", grid |-> Regions[q], queens |-> queens,
                   accepted |-> validateSolution(Regions[q], queens)]

NextPuzzle == generatePuzzle \/ Validate

SpecPuzzle == Init /\ [][NextPuzzle]_vars

\* The cells of a region, and those reachable within a set of cells from the
\* cells seen, by steps to an axis-adjacent cell.
Region(grid, id) == {rc \in Cells \X Cells : grid[rc[1]][rc[2]] = id}

RECURSIVE Reach(_, _)
Reach(cells, seen) ==
    LET more == {rc \in cells \ seen :
                    \E s \in seen : Abs(rc[1] - s[1]) + Abs(rc[2] - s[2]) = 1}
    IN  IF more = {} THEN seen ELSE Reach(cells, seen \cup more)

Contiguous(cells) ==
    cells # {} /\ \E rc \in cells : Reach(cells, {rc}) = cells

PuzzleWellFormed(grid, solution) ==
    /\ DOMAIN grid = Cells
    /\ \A r \in Cells : DOMAIN grid[r] = Cells /\ \A c \in Cells : grid[r][c] \in Cells
    /\ \A id \in Cells : Cardinality(Region(grid, id)) = GRID_SIZE
    /\ \A id \in Cells : Contiguous(Region(grid, id))
    /\ {f \in [Cells -> Cells] : validateSolution(grid, Markers(f))} = {solution}

Permitted(grid, queens) ==
    /\ Len(queens) = GRID_SIZE
    /\ \A i \in DOMAIN queens : queens[i].row \in Cells /\ queens[i].col \in Cells
    /\ \A i \in DOMAIN queens : \A j \in DOMAIN queens :
          i # j => /\ queens[i].row # queens[j].row
                   /\ queens[i].col # queens[j].col
                   /\ grid[queens[i].row][queens[i].col] # grid[queens[j].row][queens[j].col]
                   /\ ~(/\ Abs(queens[i].row - queens[j].row) <= 1
                        /\ Abs(queens[i].col - queens[j].col) <= 1)

\* C27: the verifier accepts an array exactly if it has GRID_SIZE markers, all
\* within the grid, in distinct rows, distinct columns and distinct regions,
\* no two of them at row distance <= 1 and column distance <= 1.
VerifierExact ==
    calc.op = "validateSolution"
        => (calc.accepted <=> Permitted(calc.grid, calc.queens))

VerifierWitness ==
    /\ calc.op = "validateSolution"
    /\ calc.accepted
    /\ calc.queens[1].row # 0

\* ------------------------------------------------- poker: the hand evaluator
HAND_RANKS ==
    [HIGH_CARD |-> 1, PAIR |-> 2, TWO_PAIR |-> 3, THREE_OF_A_KIND |-> 4,
     STRAIGHT |-> 5, FLUSH |-> 6, FULL_HOUSE |-> 7, FOUR_OF_A_KIND |-> 8,
     STRAIGHT_FLUSH |-> 9, ROYAL_FLUSH |-> 10]

HAND_NAMES ==
    <<"High Card", "Pair", "Two Pair", "Three of a Kind", "Straight", "Flush",
      "Full House", "Four of a Kind", "Straight Flush", "Royal Flush">>

\* getRankValue(rank) of utils/deck: the value of a card's rank, 2 to 14.
getRankValue(rank) ==
    (("2" :> 2) @@ ("3" :> 3) @@ ("4" :> 4) @@ ("5" :> 5) @@ ("6" :> 6)
        @@ ("7" :> 7) @@ ("8" :> 8) @@ ("9" :> 9) @@ ("10" :> 10)
        @@ ("J" :> 11) @@ ("Q" :> 12) @@ ("K" :> 13) @@ ("A" :> 14))[rank]

\* Array.prototype.sort with the comparator (a, b) => key(b) - key(a), which
\* is stable: x is put behind the entries whose key is not smaller.
RECURSIVE insertDesc(_, _, _, _)
insertDesc(sorted, x, kx, keys) ==
    IF sorted = <<>> THEN <<x>>
    ELSE IF keys[1] >= kx
        THEN <<sorted[1]>> \o insertDesc(Tail(sorted), x, kx, Tail(keys))
    ELSE <<x>> \o sorted

RECURSIVE sortCards(_)
sortCards(cards) ==
    IF cards = <<>> THEN <<>>
    ELSE LET n == Len(cards)
             front == sortCards(SubSeq(cards, 1, n - 1))
         IN  insertDesc(front, cards[n], getRankValue(cards[n].rank),
                        [i \in 1..(n - 1) |-> getRankValue(front[i].rank)])

RECURSIVE sortDesc(_)
sortDesc(nums) ==
    IF nums = <<>> THEN <<>>
    ELSE LET n == Len(nums)
             front == sortDesc(SubSeq(nums, 1, n - 1))
         IN  insertDesc(front, nums[n], nums[n], front)

\* checkStraight(ranks), ranks in descending order.
checkStraight(ranks) ==
    IF \E i \in 1..(Len(ranks) - 1) : ranks[i] - ranks[i + 1] # 1
        THEN ranks[1] = 14 /\ ranks[2] = 5 /\ ranks[3] = 4 /\ ranks[4] = 3 /\ ranks[5] = 2
    ELSE TRUE

\* A hand evaluator that takes the ace of a wheel for the high card.
getStraightHighCardAce(ranks) == <<ranks[1]>>

\* getStraightHighCard(ranks): in the wheel the 5 is the high card.
getStraightHighCard(ranks) ==
    IF ranks[1] = 14 /\ ranks[2] = 5 THEN <<5>> ELSE <<ranks[1]>>

\* getRankCounts(ranks): rank -> number of cards.
getRankCounts(ranks) ==
    [r \in {ranks[i] : i \in DOMAIN ranks} |->
        Cardinality({i \in DOMAIN ranks : ranks[i] = r})]

\* Object.entries(counts) lists the ranks in ascending order.
RECURSIVE ascending(_)
ascending(S) ==
    IF S = {} THEN <<>>
    ELSE LET m == CHOOSE x \in S : \A y \in S : x <= y
         IN  <<m>> \o ascending(S \ {m})

\* findAllRanksWithCount(counts, count).
findAllRanksWithCount(counts, count) ==
    ascending({r \in DOMAIN counts : counts[r] = count})

\* findRankWithCount(counts, count): the first such rank, or null (0).
findRankWithCount(counts, count) ==
    IF findAllRanksWithCount(counts, count) = <<>> THEN 0
    ELSE findAllRanksWithCount(counts, count)[1]

\* filter: the entries of ranks other than rank.
RECURSIVE without(_, _)
without(ranks, rank) ==
    IF ranks = <<>> THEN <<>>
    ELSE IF ranks[1] = rank THEN without(Tail(ranks), rank)
    ELSE <<ranks[1]>> \o without(Tail(ranks), rank)

Hand(rank, values) == [rank |-> rank, values |-> values, name |-> HAND_NAMES[rank]]

\* evaluateHand(cards) for five cards.
evaluateHand(cards) ==
    LET sortedCards == sortCards(cards)
        ranks == [i \in DOMAIN sortedCards |-> getRankValue(sortedCards[i].rank)]
        isFlush == \A i \in DOMAIN sortedCards : sortedCards[i].suit = sortedCards[1].suit
        isStraight == checkStraight(ranks)
        rankCounts == getRankCounts(ranks)
        entries == ascending(DOMAIN rankCounts)
        countValues == sortDesc([i \in DOMAIN entries |-> rankCounts[entries[i]]])
    IN  IF isFlush /\ isStraight
            THEN IF ranks[1] = 14 /\ ranks[2] = 13
                     THEN Hand(HAND_RANKS.ROYAL_FLUSH, ranks)
                 ELSE Hand(HAND_RANKS.STRAIGHT_FLUSH, getStraightHighCard(ranks))
        ELSE IF countValues[1] = 4
            THEN Hand(HAND_RANKS.FOUR_OF_A_KIND,
                      <<findRankWithCount(rankCounts, 4), findRankWithCount(rankCounts, 1)>>)
        ELSE IF countValues[1] = 3 /\ countValues[2] = 2
            THEN Hand(HAND_RANKS.FULL_HOUSE,
                      <<findRankWithCount(rankCounts, 3), findRankWithCount(rankCounts, 2)>>)
        ELSE IF isFlush THEN Hand(HAND_RANKS.FLUSH, ranks)
        ELSE IF isStraight THEN Hand(HAND_RANKS.STRAIGHT, getStraightHighCard(ranks))
        ELSE IF countValues[1] = 3
            THEN Hand(HAND_RANKS.THREE_OF_A_KIND,
                      <<findRankWithCount(rankCounts, 3)>>
                          \o without(ranks, findRankWithCount(rankCounts, 3)))
        ELSE IF countValues[1] = 2 /\ countValues[2] = 2
            THEN Hand(HAND_RANKS.TWO_PAIR,
                      sortDesc(findAllRanksWithCount(rankCounts, 2))
                          \o <<findRankWithCount(rankCounts, 1)>>)
        ELSE IF countValues[1] = 2
            THEN Hand(HAND_RANKS.PAIR,
                      <<findRankWithCount(rankCounts, 2)>>
                          \o without(ranks, findRankWithCount(rankCounts, 2)))
        ELSE Hand(HAND_RANKS.HIGH_CARD, ranks)

\* compareHands(hand1, hand2): positive if hand1 is the better one.
compareHands(hand1, hand2) ==
    IF hand1.rank # hand2.rank THEN hand1.rank - hand2.rank
    ELSE IF \E i \in DOMAIN hand1.values : hand1.values[i] # hand2.values[i]
        THEN LET i == CHOOSE k \in DOMAIN hand1.values :
                          /\ hand1.values[k] # hand2.values[k]
                          /\ \A j \in 1..(k - 1) : hand1.values[j] = hand2.values[j]
             IN  hand1.values[i] - hand2.values[i]
    ELSE 0

\* getCombinations(arr, k): combine(start, combo) and its loop from i on; the
\* combinations come in the order of the indices.
RECURSIVE combine(_, _, _, _)
RECURSIVE combineFrom(_, _, _, _)
combine(arr, k, start, combo) ==
    IF Len(combo) = k THEN <<combo>> ELSE combineFrom(arr, k, start, combo)

combineFrom(arr, k, i, combo) ==
    IF i > Len(arr) THEN <<>>
    ELSE combine(arr, k, i + 1, Append(combo, arr[i])) \o combineFrom(arr, k, i + 1, combo)

getCombinations(arr, k) == combine(arr, k, 1, <<>>)

\* bestHand before the first combination is seen.
NoHand == [rank |-> 0, values |-> <<>>, name |-> "null", cards |-> <<>>]

\* The loop of findBestHand from the i-th combination on.
RECURSIVE bestFrom(_, _, _)
bestFrom(combinations, i, best) ==
    IF i > Len(combinations) THEN best
    ELSE LET hand == evaluateHand(combinations[i])
         IN  IF best = NoHand \/ compareHands(hand, best) > 0
                 THEN bestFrom(combinations, i + 1,
                               [rank |-> hand.rank, values |-> hand.values,
                                name |-> hand.name, cards |-> combinations[i]])
             ELSE bestFrom(combinations, i + 1, best)

\* A selection that takes the last combination, whatever it is worth.
findLastHand(holeCards, communityCards) ==
    LET combinations == getCombinations(holeCards \o communityCards, 5)
    IN  bestFrom(combinations, Len(combinations), NoHand)

\* findBestHand(holeCards, communityCards).
findBestHand(holeCards, communityCards) ==
    bestFrom(getCombinations(holeCards \o communityCards, 5), 1, NoHand)

\* evaluateResults(lobby) on the hands dealt: playerHands is the sequence of
\* [playerId, holeCards] in the order of Object.entries; the players come out
\* sorted by compareHands, worst first (the sort is stable), and the losers
\* are those whose best hand compares equal to the first one's.
RECURSIVE insertAsc(_, _)
insertAsc(sorted, p) ==
    IF sorted = <<>> THEN <<p>>
    ELSE IF compareHands(sorted[1].bestHand, p.bestHand) <= 0
        THEN <<sorted[1]>> \o insertAsc(Tail(sorted), p)
    ELSE <<p>> \o sorted

RECURSIVE sortResults(_)
sortResults(playerResults) ==
    IF playerResults = <<>> THEN <<>>
    ELSE insertAsc(sortResults(SubSeq(playerResults, 1, Len(playerResults) - 1)),
                   playerResults[Len(playerResults)])

RECURSIVE filterWorst(_, _)
filterWorst(playerResults, worstHand) ==
    IF playerResults = <<>> THEN <<>>
    ELSE IF compareHands(playerResults[1].bestHand, worstHand) = 0
        THEN <<playerResults[1].playerId>> \o filterWorst(Tail(playerResults), worstHand)
    ELSE filterWorst(Tail(playerResults), worstHand)

\* A results step that names the first of the sorted players only.
evaluateResultsFirst(playerHands, communityCards) ==
    LET playerResults ==
            sortResults([i \in DOMAIN playerHands |->
                            [playerId |-> playerHands[i].playerId,
                             holeCards |-> playerHands[i].holeCards,
                             bestHand |-> findBestHand(playerHands[i].holeCards,
                                                       communityCards)]])
    IN  [players |-> playerResults, losers |-> <<playerResults[1].playerId>>,
         communityCards |-> communityCards]

evaluateResults(playerHands, communityCards) ==
    LET playerResults ==
            sortResults([i \in DOMAIN playerHands |->
                            [playerId |-> playerHands[i].playerId,
                             holeCards |-> playerHands[i].holeCards,
                             bestHand |-> findBestHand(playerHands[i].holeCards,
                                                       communityCards)]])
    IN  [players |-> playerResults,
         losers |-> filterWorst(playerResults, playerResults[1].bestHand),
         communityCards |-> communityCards]

\* The cards the evaluator is applied to are the first cards of Deck.
Card(rank, suit) == [rank |-> rank, suit |-> suit]

Deck ==
    <<Card("7", "hearts"), Card("7", "diamonds"), Card("2", "clubs"),
      Card("2", "spades"), Card("A", "spades"), Card("K", "spades"),
      Card("Q", "spades"), Card("J", "spades"), Card("10", "spades"),
      Card("7", "clubs"), Card("3", "diamonds"), Card("4", "hearts"),
      Card("5", "clubs"), Card("6", "diamonds"), Card("7", "spades"),
      Card("9", "spades"), Card("6", "spades"), Card("8", "hearts")>>

\* The number of cards that five-card hands are drawn from, and that the
\* seven cards of a player are drawn from.
DeckSize == 16
DealSize == 12

\* The cards at a set of positions of the deck, in the order of the deck.
Pick(positions) ==
    [i \in DOMAIN ascending(positions) |-> Deck[ascending(positions)[i]]]

\* The sets of k positions among the first n.
Draws(n, k) == {S \in SUBSET (1..n) : Cardinality(S) = k}

\* The hands a hand is compared with: four sevens, sevens full of twos, the
\* ace-high flush, the six-high straight, the wheel, a pair of twos.
Rivals ==
    {Pick(S) : S \in {{1, 2, 10, 15, 4}, {1, 2, 15, 3, 4}, {5, 6, 7, 8, 16},
                      {3, 11, 12, 13, 14}, {5, 3, 11, 12, 13}, {3, 4, 5, 1, 11}}}

RivalHands == [cards \in Rivals |-> evaluateHand(cards)]

\* The boards of the rounds evaluated: the royal flush; king and queen with
\* low cards; ace, ten, a seven and low cards.
Boards ==
    {Pick(S) : S \in {{5, 6, 7, 8, 9}, {6, 7, 11, 12, 14}, {5, 9, 10, 11, 13}}}

\* The number of players in a round evaluated; their hole cards come from the
\* first cards of the deck that are not on the board, two for each.
PokerPlayers == 3

Pocket(board) ==
    LET rest == ascending({i \in 1..Len(Deck) : \A j \in DOMAIN board : Deck[i] # board[j]})
    IN  {rest[i] : i \in 1..(2 * PokerPlayers)}

\* Two hands are evaluated and compared.
Compare ==
    /\ Running
    /\ calc.op = "none"
    /\ UNCHANGED server
    /\ \E S \in Draws(DeckSize, 5) :
       \E cards1 \in {Pick(S)} :
       \E hand1 \in {evaluateHand(cards1)} :
       \E cards2 \in Rivals :
          calc' = [op |-> "compareHands", cards1 |-> cards1, cards2 |-> cards2,
                   hand1 |-> hand1, hand2 |-> RivalHands[cards2],
                   result |-> compareHands(hand1, RivalHands[cards2])]

\* A player's best hand is selected from two hole cards and the board.
Select ==
    /\ Running
    /\ calc.op = "none"
    /\ UNCHANGED server
    /\ \E S \in Draws(DealSize, 7) :
          LET cards == Pick(S)
          IN  calc' = [op |-> "findBestHand", holeCards |-> SubSeq(cards, 1, 2),
                       communityCards |-> SubSeq(cards, 3, 7),
                       bestHand |-> findBestHand(SubSeq(cards, 1, 2), SubSeq(cards, 3, 7))]

\* A round is evaluated: PokerPlayers players hold two cards each.
Evaluate ==
    /\ Running
    /\ calc.op = "none"
    /\ UNCHANGED server
    /\ \E board \in Boards :
       \E holes \in [1..PokerPlayers -> {S \in SUBSET Pocket(board) : Cardinality(S) = 2}] :
          /\ \A i \in 1..PokerPlayers : \A j \in 1..PokerPlayers :
                i # j => holes[i] \cap holes[j] = {}
          /\ LET playerHands == [i \in 1..PokerPlayers |->
                                    [playerId |-> i, holeCards |-> Pick(holes[i])]]
             IN  calc' = [op |-> "evaluateResults", playerHands |-> playerHands,
                          results |-> evaluateResults(playerHands, board)]

SpecCompare == Init /\ [][Compare]_vars

SpecSelect == Init /\ [][Select]_vars

SpecEvaluate == Init /\ [][Evaluate]_vars

\* The five-card selections of a sequence of cards, in the order of the cards.
FiveOf(cards) ==
    {[i \in 1..5 |-> cards[ascending(S)[i]]] :
        S \in {T \in SUBSET DOMAIN cards : Cardinality(T) = 5}}

\* C28: for seven distinct cards, findBestHand returns the evaluation of one
\* of the 21 five-card subsets, with that subset's cards, and its result
\* compares greater than or equal to the evaluation of every five-card subset.
BestHandIsMaximum ==
    calc.op = "findBestHand"
        => LET cards == calc.holeCards \o calc.communityCards
               best == calc.bestHand
           IN  /\ Cardinality({cards[i] : i \in DOMAIN cards}) = 7
               /\ Cardinality(FiveOf(cards)) = 21
               /\ \E five \in FiveOf(cards) :
                     /\ best.cards = five
                     /\ [rank |-> best.rank, values |-> best.values, name |-> best.name]
                            = evaluateHand(five)
               /\ \A five \in FiveOf(cards) : compareHands(best, evaluateHand(five)) >= 0

BestHandWitness ==
    /\ calc.op = "findBestHand"
    /\ calc.bestHand.rank = HAND_RANKS.FULL_HOUSE
    /\ calc.bestHand.cards # SubSeq(calc.holeCards \o calc.communityCards, 1, 5)
    /\ \E five \in FiveOf(calc.holeCards \o calc.communityCards) :
          compareHands(calc.bestHand, evaluateHand(five)) > 0

\* The category of five cards, from their ranks and suits.
Values(cards) == {getRankValue(cards[i].rank) : i \in DOMAIN cards}

Copies(cards, v) == Cardinality({i \in DOMAIN cards : getRankValue(cards[i].rank) = v})

SameSuit(cards) == \A i \in DOMAIN cards : cards[i].suit = cards[1].suit

Wheel == {14, 2, 3, 4, 5}

InSequence(cards) ==
    \/ Values(cards) = Wheel
    \/ \E low \in 2..10 : Values(cards) = low..(low + 4)

Category(cards) ==
    LET most == CHOOSE n \in 1..4 : /\ \E v \in Values(cards) : Copies(cards, v) = n
                                    /\ \A v \in Values(cards) : Copies(cards, v) <= n
        pairs == Cardinality({v \in Values(cards) : Copies(cards, v) = 2})
    IN  IF SameSuit(cards) /\ Values(cards) = 10..14 THEN HAND_RANKS.ROYAL_FLUSH
        ELSE IF SameSuit(cards) /\ InSequence(cards) THEN HAND_RANKS.STRAIGHT_FLUSH
        ELSE IF most = 4 THEN HAND_RANKS.FOUR_OF_A_KIND
        ELSE IF most = 3 /\ pairs = 1 THEN HAND_RANKS.FULL_HOUSE
        ELSE IF SameSuit(cards) THEN HAND_RANKS.FLUSH
        ELSE IF InSequence(cards) THEN HAND_RANKS.STRAIGHT
        ELSE IF most = 3 THEN HAND_RANKS.THREE_OF_A_KIND
        ELSE IF pairs = 2 THEN HAND_RANKS.TWO_PAIR
        ELSE IF pairs = 1 THEN HAND_RANKS.PAIR
        ELSE HAND_RANKS.HIGH_CARD

\* C29: a hand is evaluated to its category, and a hand of a higher category
\* beats a hand of a lower one whatever the ranks; a full house has the
\* tie-break vector [rank of the three, rank of the pair]; A-2-3-4-5 of mixed
\* suits is a straight with high card 5 and is below the six-high straight.
HandOrdering ==
    calc.op = "compareHands"
        => \A c1 \in {Category(calc.cards1)} : \A c2 \in {Category(calc.cards2)} :
           /\ calc.hand1.rank = c1
           /\ calc.hand2.rank = c2
           /\ c1 > c2 => calc.result > 0
           /\ c1 < c2 => calc.result < 0
           /\ c1 = HAND_RANKS.FULL_HOUSE
                 => \E t \in Values(calc.cards1) : \E p \in Values(calc.cards1) :
                       /\ Copies(calc.cards1, t) = 3
                       /\ Copies(calc.cards1, p) = 2
                       /\ calc.hand1.values = <<t, p>>
           /\ Values(calc.cards1) = Wheel /\ ~SameSuit(calc.cards1)
                 => /\ calc.hand1.rank = HAND_RANKS.STRAIGHT
                    /\ calc.hand1.values = <<5>>
                    /\ Values(calc.cards2) = 2..6 /\ ~SameSuit(calc.cards2)
                          => calc.result < 0

HandOrderingWitness ==
    /\ calc.op = "compareHands"
    /\ Values(calc.cards1) = Wheel
    /\ Values(calc.cards2) = 2..6
    /\ calc.hand2.rank = HAND_RANKS.STRAIGHT
    /\ calc.result < 0

\* C30: the losers of a poker round are the players whose best hand compares
\* equal to the worst best hand of the round: everyone tied for worst, each
\* once, no one else, and at least one.
LosersAreTheWorst ==
    calc.op = "evaluateResults"
        => LET ps == calc.results.players
               worst == {i \in DOMAIN ps :
                            \A j \in DOMAIN ps : compareHands(ps[i].bestHand, ps[j].bestHand) <= 0}
               losers == calc.results.losers
           IN  /\ {ps[i].playerId : i \in DOMAIN ps}
                     = {calc.playerHands[i].playerId : i \in DOMAIN calc.playerHands}
               /\ Len(ps) = Len(calc.playerHands)
               /\ {losers[i] : i \in DOMAIN losers} = {ps[i].playerId : i \in worst}
               /\ Len(losers) = Cardinality(worst)
               /\ losers # <<>>

LosersWitness ==
    /\ calc.op = "evaluateResults"
    /\ Len(calc.results.players) = 3
    /\ Len(calc.results.losers) = 2

\* The events whose payload holds hole cards.
CardEvents == {"game:hole-cards", "game:results"}

\* C31: the hole cards of a player are emitted to the room of the one
\* connection that Player object names as its socket at that moment, never to
\* the room of a lobby; every event a lobby's room gets from the dealer before
\* the results is one that carries no hole cards.
HoleCardsUnicast ==
    \A i \in DOMAIN emits :
        /\ emits[i].ev = "game:hole-cards"
              => /\ emits[i].to = SocketRoom(player[emits[i].who].socketId)
                 /\ emits[i].to \notin Codes
                 /\ \A j \in DOMAIN emits : emits[j].ev = "game:hole-cards" => j = i
        /\ emits[i].to \in Codes /\ emits[i].ev \in CardEvents
              => /\ emits[i].ev = "game:results"
                 /\ \A l \in DOMAIN lobby :
                       lobby[l].gameState.rid = emits[i].who
                          => lobby[l].gameState.phase = "results"

HoleCardsWitness ==
    /\ \E i \in DOMAIN emits :
          /\ emits[i].ev = "game:hole-cards"
          /\ \E q \in DOMAIN player :
                /\ q # emits[i].who
                /\ player[q].lobbyCode = player[emits[i].who].lobbyCode
                /\ player[q].socketId \in connected
                /\ player[q].socketId # player[emits[i].who].socketId

\* state.timers[key] of the timer that ends a phase: gameEnd for the playing
\* phase of queens and multiply-madness, wordSubmission and drawing for the
\* phases of the drawing game.
PhaseTimer(phase) ==
    CASE phase = "playing" -> "gameEnd"
      [] phase = "word-submission" -> "wordSubmission"
      [] phase = "drawing" -> "drawing"
      [] phase = "viewing" -> "viewing"
      [] OTHER -> "none"

\* A game:action step in which the handler found the exit condition of the
\* phase of lobby l met and left the phase.
EarlyTransition(l) ==
    /\ ack' \in {"success", "correct"}
    /\ l \in DOMAIN lobby'
    /\ lobby[l].gameState.rid # 0
    /\ lobby'[l].gameState.rid = lobby[l].gameState.rid
    /\ lobby'[l].gameState.phase # lobby[l].gameState.phase

\* Rounds of the drawing game, one started over the other, in a lobby whose
\* first connection may leave or drop.
RestartMovers == 1

NextRestart ==
    \/ ConnectionStep(MaxSockets, MaxPlayers, MaxLobbies, RestartMovers)
    \/ RoundStep({"drawing-game"}, RaceRounds)
    \/ DrawingStep

SpecRestart == Init /\ [][NextRestart]_vars

\* C32: cancel-before-transition.  When a step of an action handler leaves a
\* phase early (all solved, all scores, all words or all drawings in), no timer
\* of the lobby scheduled for the phase it left is pending afterwards, so that
\* nothing leaves that phase a second time, and the results transition of the
\* round has run once.
CancelBeforeTransition ==
    [][\A l \in DOMAIN lobby :
          EarlyTransition(l)
             => /\ \A t \in timers' :
                      t.lid = l => t.key # PhaseTimer(lobby[l].gameState.phase)
                /\ finished'[lobby[l].gameState.rid].transitions <= 1]_vars

\* A round of queens or multiply-madness in a lobby of three, the first of
\* whom may leave or drop during the round.
SolveSockets == 3
SolvePlayers == 3
SolveLobbies == 1
SolveRounds == 1
SolveMovers == 1

NextSolve ==
    \/ ConnectionStep(SolveSockets, SolvePlayers, SolveLobbies, SolveMovers)
    \/ RoundStep({"queens", "multiply-madness"}, SolveRounds)
    \/ QueensStep
    \/ MadnessStep

SpecSolve == Init /\ [][NextSolve]_vars

\* A game:action step in which submitSolution finished the queens round of
\* lobby l.
EarlyFinish(l) ==
    /\ ack' = "correct"
    /\ l \in DOMAIN lobby'
    /\ lobby[l].gameState.game = "queens"
    /\ lobby[l].gameState.phase = "playing"
    /\ lobby'[l].gameState.rid = lobby[l].gameState.rid
    /\ lobby'[l].gameState.phase = "results"

UniqueRows ==
    <<<<1, 1, 1, 0, 0, 0>>,
      <<1, 1, 1, 0, 0, 0>>,
      <<1, 1, 1, 2, 3, 3>>,
      <<1, 1, 1, 1, 3, 3>>,
      <<4, 4, 4, 1, 3, 3>>,
      <<4, 4, 5, 1, 3, 3>>>>

UniqueGrid == [r \in Cells |-> [c \in Cells |-> UniqueRows[r + 1][c + 1]]]

UniqueQueens == [r \in Cells |-> <<4, 1, 3, 5, 0, 2>>[r + 1]]

\* The first placement of placeQueens in the order of the arrays.
FirstQueens == CHOOSE q \in placeQueens : \A p \in placeQueens : p = q \/ before(q, p)

\* The grids the counter and the verifier are compared on, and for each the
\* placement it was grown from.
CountGrids == <<Regions[FirstQueens], UniqueGrid>>

StoredSolution == <<FirstQueens, UniqueQueens>>

\* countSolutions(grid) of each of them.
Counts == [g \in DOMAIN CountGrids |-> countSolutions(CountGrids[g])]

\* solve(row) of countSolutions reaches row === n with the columns cols: every
\* row passed isValid against the rows before it.
solves(grid, cols) ==
    \A row \in Cells : countValid(grid, cols, row, cols[row])

\* The array a client sends for the columns cols, first row first or last.
Ordered(cols, reversed) ==
    IF reversed THEN [i \in 1..GRID_SIZE |-> Markers(cols)[GRID_SIZE + 1 - i]]
    ELSE Markers(cols)

\* countSolutions and validateSolution are applied to one grid and one choice
\* of a column in every row.
Count ==
    /\ Running
    /\ calc.op = "none"
    /\ UNCHANGED server
    /\ \E g \in DOMAIN CountGrids : \E cols \in [Cells -> Cells] : \E reversed \in BOOLEAN :
          calc' = [op |-> "countSolutions", g |-> g, queens |-> Ordered(cols, reversed),
                   count |-> Counts[g],
                   counted |-> solves(CountGrids[g], cols),
                   accepted |-> validateSolution(CountGrids[g], Ordered(cols, reversed))]

SpecCount == Init /\ [][Count]_vars

\* The number of one-marker-per-row placements the verifier accepts on a grid.
Accepted ==
    [g \in DOMAIN CountGrids |->
        Cardinality({cols \in [Cells -> Cells] :
                        validateSolution(CountGrids[g], Markers(cols))})]

\* C34: the counter and the verifier use the same predicate.  A placement of
\* one marker per row is counted by countSolutions (it passes isValid in every
\* row) exactly if validateSolution accepts it, in either order of the array;
\* countSolutions returns the number of accepted placements, cut at 2; and on
\* a grid with one solution a submission is accepted exactly if its cells are
\* those of the stored solution.
CounterMatchesVerifier ==
    calc.op = "countSolutions"
        => /\ calc.counted <=> calc.accepted
           /\ calc.count = IF Accepted[calc.g] > 1 THEN 2 ELSE Accepted[calc.g]
           /\ calc.count = 1
                 => (calc.accepted
                        <=> Range(calc.queens) = Range(Markers(StoredSolution[calc.g])))

\* The stored solution of the grid with one solution, sent last row first,
\* is accepted.
CounterWitness ==
    /\ calc.op = "countSolutions"
    /\ calc.count = 1
    /\ calc.counted
    /\ calc.accepted
    /\ calc.queens[1].row # 0

\* C35: queens puzzle generation terminates.  A call of generatePuzzle makes
\* at most maxAttempts (100) attempts; in each, placeQueens returns a placement,
\* generateRegions a grid and countSolutions a count; while the call has not
\* ended its next pass can run, every pass is one more attempt or the throw
\* that follows the last one, and the call ends returned or failed.
GenerationTerminates ==
    /\ [](calc.op = "generatePuzzle"
            => /\ calc.attempt <= maxAttempts
               /\ calc.outcome \in {"trying", "returned", "failed"}
               /\ calc.outcome = "trying" => ENABLED generatePuzzle
               /\ calc.outcome # "trying" => ~ENABLED generatePuzzle
               /\ calc.attempt > 0 /\ calc.outcome # "failed"
                     => /\ calc.solution \in placeQueens
                        /\ calc.grid = generateRegions(calc.solution)
                        /\ calc.grid # NoGrid
                        /\ countSolutions(calc.grid) \in 0..2)
    /\ [][calc.op = "generatePuzzle" /\ calc'.op = "generatePuzzle"
            => /\ calc.outcome = "trying"
               /\ \/ calc'.attempt = calc.attempt + 1 /\ calc.attempt < maxAttempts
                  \/ /\ calc'.outcome = "failed"
                     /\ calc'.attempt = calc.attempt
                     /\ calc.attempt = maxAttempts]_vars

\* A call that has made all its attempts and thrown.
GenerationWitness ==
    /\ calc.op = "generatePuzzle"
    /\ calc.outcome = "failed"
    /\ calc.attempt = maxAttempts

\* C36: session-directory consistency.  Every player is bound to at most one
\* connection id (a connection id maps to one player at most, the directory
\* being a map), and every member of a registered lobby that is not marked
\* disconnected is the player the directory holds under the member's current
\* connection id.
DirectoryConsistent ==
    /\ \A p \in DOMAIN player : Cardinality(BoundTo(p)) <= 1
    /\ \A l \in Registered : \A p \in Members(l) :
          ~player[p].disconnected
             => /\ player[p].socketId \in DOMAIN playersBySocket
                /\ playersBySocket[player[p].socketId] = p

\* C37: the host flag and the back-reference agree with the lobby.  For every
\* Lobby object and every member of it, the member's isHost is true exactly
\* if its id is the lobby's hostId, its lobbyCode is the lobby's code, and a
\* lobby with members has exactly one member carrying the flag.
HostFlagAgrees ==
    \A l \in DOMAIN lobby :
        /\ \A p \in Members(l) :
              /\ player[p].isHost <=> p = lobby[l].hostId
              /\ player[p].lobbyCode = lobby[l].code
        /\ Members(l) # {} => Cardinality({p \in Members(l) : player[p].isHost}) = 1

\* A lobby of two or more whose host has just been replaced.
HostFlagWitness ==
    \E l \in Registered :
        /\ Cardinality(Members(l)) >= 2
        /\ "lobby:host-changed" \in Emitted
        /\ player[lobby[l].hostId].isHost
        /\ lobby[l].hostId # lobby[l].players[Len(lobby[l].players)]

\* C38: grace-timer bookkeeping.  A member of a lobby has a pending removal
\* timer exactly if it is marked disconnected, and no player has more than one
\* pending removal timer.
GraceTimerBookkeeping ==
    /\ \A l \in DOMAIN lobby : \A p \in Members(l) :
          TimersOf(p) # {} <=> player[p].disconnected
    /\ \A p \in DOMAIN player : Cardinality(TimersOf(p)) <= 1

\* A lobby in which one member is disconnected, with its one removal timer
\* pending, while another has just reconnected and has none.
GraceTimerWitness ==
    \E l \in Registered : \E p \in Members(l) : \E q \in Members(l) :
        /\ p # q
        /\ player[p].disconnected
        /\ Cardinality(TimersOf(p)) = 1
        /\ emits = <<Ev("lobby:player-reconnected", lobby[l].code, q)>>
        /\ ~player[q].disconnected
        /\ TimersOf(q) = {}

\* ------------------------------------------ queens: the results of a round
\* The comparator of finishGame's sort: solvers by time ascending, then the
\* non-solvers.
compareScores(a, b) ==
    IF a.solved /\ b.solved THEN a.solveTime - b.solveTime
    ELSE IF a.solved THEN -1
    ELSE IF b.solved THEN 1
    ELSE 0

\* playerScores.sort(comparator), which is stable: a score is put behind the
\* scores that do not compare greater.
RECURSIVE insertScore(_, _)
insertScore(sorted, x) ==
    IF sorted = <<>> THEN <<x>>
    ELSE IF compareScores(sorted[1], x) <= 0
        THEN <<sorted[1]>> \o insertScore(Tail(sorted), x)
    ELSE <<x>> \o sorted

RECURSIVE sortScores(_)
sortScores(scores) ==
    IF scores = <<>> THEN <<>>
    ELSE insertScore(sortScores(SubSeq(scores, 1, Len(scores) - 1)), scores[Len(scores)])

\* The losers entry of a score.
loser(p, reason) == [playerId |-> p.playerId, reason |-> reason]

\* A finishGame in which, when all have solved, the fastest lose.
queensResultsFastest(players, solvedPlayers) ==
    LET playerScores ==
            sortScores([i \in DOMAIN players |->
                [playerId |-> players[i],
                 solved |-> players[i] \in DOMAIN solvedPlayers,
                 solveTime |-> IF players[i] \in DOMAIN solvedPlayers
                                  THEN solvedPlayers[players[i]] ELSE NoTime]])
        solvers == SelectSeq(playerScores, LAMBDA p : p.solved)
        nonSolvers == SelectSeq(playerScores, LAMBDA p : ~p.solved)
        slowest(p) == p.solveTime = solvers[1].solveTime
    IN  [players |-> playerScores,
         losers |-> IF Len(solvers) = 0
                       THEN [i \in DOMAIN playerScores |-> loser(playerScores[i], "no-solve")]
                    ELSE IF Len(nonSolvers) > 0
                       THEN [i \in DOMAIN nonSolvers |-> loser(nonSolvers[i], "no-solve")]
                    ELSE LET last == SelectSeq(solvers, slowest)
                         IN  [i \in DOMAIN last |-> loser(last[i], "slowest")]]

\* finishGame of queens, what it stores in state.results: players is the
\* members of the lobby in the order of lobby.players, solvedPlayers the map
\* from the ids of those who solved to their solve times.
queensResults(players, solvedPlayers) ==
    LET playerScores ==
            sortScores([i \in DOMAIN players |->
                [playerId |-> players[i],
                 solved |-> players[i] \in DOMAIN solvedPlayers,
                 solveTime |-> IF players[i] \in DOMAIN solvedPlayers
                                  THEN solvedPlayers[players[i]] ELSE NoTime]])
        solvers == SelectSeq(playerScores, LAMBDA p : p.solved)
        nonSolvers == SelectSeq(playerScores, LAMBDA p : ~p.solved)
        slowest(p) == p.solveTime = solvers[Len(solvers)].solveTime
    IN  [players |-> playerScores,
         losers |-> IF Len(solvers) = 0
                       THEN [i \in DOMAIN playerScores |-> loser(playerScores[i], "no-solve")]
                    ELSE IF Len(nonSolvers) > 0
                       THEN [i \in DOMAIN nonSolvers |-> loser(nonSolvers[i], "no-solve")]
                    ELSE LET last == SelectSeq(solvers, slowest)
                         IN  [i \in DOMAIN last |-> loser(last[i], "slowest")]]

\* The players of a round and the solve times of the rounds ranked.
RankPlayers == 3
RankTimes == 2

\* The orders of lobby.players for the members that are left, and the maps
\* solvedPlayers: a solve time is Date.now() - phaseStartTime, which is a
\* time after the start of the server since phaseStartTime is null.
RankMembers ==
    {m \in UNION {[1..n -> 1..RankPlayers] : n \in 1..RankPlayers} :
        \A i \in DOMAIN m : \A j \in DOMAIN m : i # j => m[i] # m[j]}

RankSolved ==
    UNION {[S -> {Epoch + k - NoTime : k \in 1..RankTimes}] : S \in SUBSET (1..RankPlayers)}

\* A round of queens is finished: finishGame ranks the members.
Rank ==
    /\ Running
    /\ calc.op = "none"
    /\ UNCHANGED server
    /\ \E members \in RankMembers : \E solvedPlayers \in RankSolved :
          calc' = [op |-> "finishGame", members |-> members, solvedPlayers |-> solvedPlayers,
                   results |-> queensResults(members, solvedPlayers)]

SpecRank == Init /\ [][Rank]_vars

\* C39: the queens results rule.  When a round finishes with at least one
\* member, the ranked list holds the members, the solvers by ascending solve
\* time ahead of all non-solvers, and the losers are not none: all members if
\* nobody solved, the non-solvers if some but not all solved, and the solvers
\* with the largest solve time if everyone solved.
QueensResultsRule ==
    calc.op = "finishGame" /\ Len(calc.members) >= 1
        => LET ranked == calc.results.players
               members == Range(calc.members)
               solvers == members \cap DOMAIN calc.solvedPlayers
               losers == {calc.results.losers[i].playerId : i \in DOMAIN calc.results.losers}
           IN  /\ Len(ranked) = Cardinality(members)
               /\ {ranked[i].playerId : i \in DOMAIN ranked} = members
               /\ \A i \in DOMAIN ranked :
                     /\ ranked[i].solved <=> ranked[i].playerId \in solvers
                     /\ ranked[i].solved
                           => ranked[i].solveTime = calc.solvedPlayers[ranked[i].playerId]
               /\ \A i \in DOMAIN ranked : \A j \in DOMAIN ranked :
                     i < j => /\ ranked[j].solved => ranked[i].solved
                              /\ ranked[i].solved /\ ranked[j].solved
                                    => ranked[i].solveTime <= ranked[j].solveTime
               /\ losers # {}
               /\ Len(calc.results.losers) = Cardinality(losers)
               /\ solvers = {} => losers = members
               /\ solvers # {} /\ solvers # members => losers = members \ solvers
               /\ solvers = members
                     => losers = {p \in members :
                                     \A q \in members :
                                         calc.solvedPlayers[q] <= calc.solvedPlayers[p]}

\* Three members who all solved, two of them tied for the largest solve time
\* and one faster, while the lobby's order is not the order of the times.
QueensResultsWitness ==
    /\ calc.op = "finishGame"
    /\ Len(calc.members) = RankPlayers
    /\ Range(calc.members) \subseteq DOMAIN calc.solvedPlayers
    /\ Len(calc.results.losers) = RankPlayers - 1
    /\ calc.results.players[1].playerId # calc.members[1]

====
